---- MODULE Spec2Model ----
(***************************************************************************)
(* Model of typst-lib-wrapper's runtime data layer: the lazily loaded file *)
(* cells (files.rs), the per-compiler file store (compiler.rs), the        *)
(* builder (builder.rs, parameters.rs) and the package resolver            *)
(* (package.rs).                                                           *)
(***************************************************************************)
EXTENDS Integers, Sequences, FiniteSets, TLC

(***************************************************************************)
(* Bounds of the model.                                                    *)
(***************************************************************************)
MaxCalls == 3        \* World::source / World::file calls issued in a compilation
MaxUnitCalls == 3    \* get_or_init calls applied to the stand-alone cell
MaxResolves == 2
MaxTodayCalls == 2   \* World::today calls issued in a compilation
MaxFontOps == 3     \* prepare_package calls per resolver

Callers == {1, 2}    \* threads that call into one Compiler during typst::compile

(***************************************************************************)
(* Strings: a string is a sequence of characters; RESERVED_IN_MEMORY_      *)
(* IDENTIFIER is the two-character string "XY" of the model's alphabet.    *)
(***************************************************************************)
RESERVED_IN_MEMORY_IDENTIFIER == <<"X", "Y">>

\* str::contains
Contains(s, pat) ==
    \E i \in 1..(Len(s) - Len(pat) + 1) : SubSeq(s, i, i + Len(pat) - 1) = pat

(***************************************************************************)
(* Results: FileResult<T> / PackageResult<T> and Option.                   *)
(***************************************************************************)
NoData == [tag |-> "none"]
Ok(v) == [tag |-> "ok", val |-> v]
Err(e) == [tag |-> "err", err |-> e]

(***************************************************************************)
(* Raw file contents: byte strings.  "a", "b", BOM + "a", and a byte       *)
(* string that is not UTF-8.                                               *)
(***************************************************************************)
Bom == <<239, 187, 191>>
RawContents == { <<97>>, <<98>>, <<239, 187, 191, 97>>, <<255>> }

\* The errors a load step (system_path + read_from_disk) can yield.
ReadErrors == {"NotFound", "IsDirectory", "AccessDenied"}
PackageErrors == {"PkgNotFound", "NetworkFailed", "MalformedArchive"}

\* FileResult<Vec<u8>> values a file read (without package resolution) yields.
LoadResults == {Ok(b) : b \in RawContents} \cup {Err(e) : e \in ReadErrors}

\* typst::util::hash128 over a FileResult<Vec<u8>>: a content hash, modelled
\* as a polynomial hash of the bytes (resp. a code of the error); it is
\* injective on the results of the model and never 0 on them.
RECURSIVE HashBytes(_, _)
HashBytes(s, h) ==
    IF s = <<>> THEN h ELSE HashBytes(Tail(s), (h * 31 + Head(s)) % 65521)

ErrCode(e) ==
    CASE e = "NotFound" -> 1
      [] e = "IsDirectory" -> 2
      [] e = "AccessDenied" -> 3
      [] e = "PkgNotFound" -> 4
      [] e = "NetworkFailed" -> 5
      [] e = "MalformedArchive" -> 6
      [] OTHER -> 7

Hash128(result) ==
    IF result.tag = "ok" THEN 100 + HashBytes(result.val, 7)
    ELSE ErrCode(result.err)

(***************************************************************************)
(* LazyFile::decode_utf8: strip a leading BOM, then validate UTF-8.        *)
(***************************************************************************)
StripBom(buf) ==
    IF Len(buf) >= 3 /\ SubSeq(buf, 1, 3) = Bom THEN SubSeq(buf, 4, Len(buf))
    ELSE buf

\* std::str::from_utf8 succeeds: ASCII bytes, or the 3-byte sequence EF BB BF.
RECURSIVE IsUtf8(_)
IsUtf8(s) ==
    IF s = <<>> THEN TRUE
    ELSE IF Head(s) < 128 THEN IsUtf8(Tail(s))
    ELSE IF Len(s) >= 3 /\ SubSeq(s, 1, 3) = Bom THEN IsUtf8(SubSeq(s, 4, Len(s)))
    ELSE FALSE

decode_utf8(buf) ==
    IF IsUtf8(StripBom(buf)) THEN Ok(StripBom(buf)) ELSE Err("InvalidUtf8")

(***************************************************************************)
(* LazyCell<T> (files.rs).                                                 *)
(***************************************************************************)
\* LazyCell::new
NewCell == [data |-> NoData, fingerprint |-> 0, accessed |-> FALSE]

\* The transform closure of LazyFile::source: decode, then update the
\* previous Source in place or build a new one.
SourceTransform(id, data, prev) ==
    LET text == decode_utf8(data) IN
    IF text.tag = "err" THEN text
    ELSE IF prev.tag = "ok"
         THEN Ok([prev.val EXCEPT !.text = text.val, !.edits = @ + 1])
         ELSE Ok([id |-> id, text |-> text.val, edits |-> 0])

\* The transform closure of LazyFile::file: data.into()
FileTransform(data, prev) == Ok([bytes |-> data])

Transform(kind, id, data, prev) ==
    IF kind = "source" THEN SourceTransform(id, data, prev)
    ELSE FileTransform(data, prev)

\* Variant: the test of the accessed flag inverted.
CellHitInverted(c) == ~c.accessed /\ c.data.tag # "none"

\* get_or_init, first half: `if replace(&mut self.accessed, true)` and a
\* cached result exists, the cached result is returned.
CellHit(c) == c.accessed /\ c.data.tag # "none"

\* Variant: the fingerprint comparison left out, every load is transformed.
GetOrInitLoadAlwaysTransform(c, kind, id, result) ==
    LET prev == IF c.data.tag = "ok" THEN c.data ELSE NoData
        value == IF result.tag = "ok"
                 THEN Transform(kind, id, result.val, prev)
                 ELSE result
    IN [cell |-> [data |-> value, fingerprint |-> Hash128(result), accessed |-> TRUE],
        ret |-> value, loaded |-> TRUE,
        transformed |-> (result.tag = "ok"), prev |-> prev]

\* Variant: the accessed flag is not set by the call.
GetOrInitLoadFlagNotSet(c, kind, id, result) ==
    LET fp == Hash128(result)
        c1 == [c EXCEPT !.fingerprint = fp]
    IN
    IF c.fingerprint = fp /\ c.data.tag # "none"
    THEN [cell |-> c1, ret |-> c.data, loaded |-> TRUE,
          transformed |-> FALSE, prev |-> NoData]
    ELSE LET prev == IF c.data.tag = "ok" THEN c.data ELSE NoData
             value == IF result.tag = "ok"
                      THEN Transform(kind, id, result.val, prev)
                      ELSE result
         IN [cell |-> [c1 EXCEPT !.data = value], ret |-> value, loaded |-> TRUE,
             transformed |-> (result.tag = "ok"), prev |-> prev]

\* Variant: an error is returned but not stored in the cell.
GetOrInitLoadErrorNotCached(c, kind, id, result) ==
    LET fp == Hash128(result)
        c1 == [c EXCEPT !.accessed = TRUE, !.fingerprint = fp]
    IN
    IF c.fingerprint = fp /\ c.data.tag # "none"
    THEN [cell |-> c1, ret |-> c.data, loaded |-> TRUE,
          transformed |-> FALSE, prev |-> NoData]
    ELSE LET prev == IF c.data.tag = "ok" THEN c.data ELSE NoData
             value == IF result.tag = "ok"
                      THEN Transform(kind, id, result.val, prev)
                      ELSE result
         IN [cell |-> [c1 EXCEPT !.data = IF value.tag = "ok" THEN value ELSE NoData],
             ret |-> value, loaded |-> TRUE,
             transformed |-> (result.tag = "ok"), prev |-> prev]

\* Variant: an error is returned while the cell keeps what it had cached.
GetOrInitLoadErrorKeepsOld(c, kind, id, result) ==
    LET fp == Hash128(result)
        c1 == [c EXCEPT !.accessed = TRUE, !.fingerprint = fp]
    IN
    IF c.fingerprint = fp /\ c.data.tag # "none"
    THEN [cell |-> c1, ret |-> c.data, loaded |-> TRUE,
          transformed |-> FALSE, prev |-> NoData]
    ELSE LET prev == IF c.data.tag = "ok" THEN c.data ELSE NoData
             value == IF result.tag = "ok"
                      THEN Transform(kind, id, result.val, prev)
                      ELSE result
         IN [cell |-> [c1 EXCEPT !.data = IF value.tag = "ok" THEN value ELSE c.data],
             ret |-> value, loaded |-> TRUE,
             transformed |-> (result.tag = "ok"), prev |-> prev]

PrevValueNever(data) == NoData
\* self.data.take().and_then(Result::ok)
PrevValue(data) == IF data.tag = "ok" THEN data ELSE NoData

\* get_or_init, second half, run with the result of load(): hash, compare
\* with the stored fingerprint, reuse or transform.
GetOrInitLoad(c, kind, id, result) ==
    LET fp == Hash128(result)
        c1 == [c EXCEPT !.accessed = TRUE, !.fingerprint = fp]
    IN
    IF c.fingerprint = fp /\ c.data.tag # "none"
    THEN [cell |-> c1, ret |-> c.data, loaded |-> TRUE,
          transformed |-> FALSE, prev |-> NoData]
    ELSE LET prev == PrevValue(c.data)
             value == IF result.tag = "ok"
                      THEN Transform(kind, id, result.val, prev)
                      ELSE result
         IN [cell |-> [c1 EXCEPT !.data = value], ret |-> value, loaded |-> TRUE,
             transformed |-> (result.tag = "ok"), prev |-> prev]

\* The whole get_or_init, given the result load() yields if it is invoked.
GetOrInit(c, kind, id, result) ==
    IF CellHit(c)
    THEN [cell |-> c, ret |-> c.data, loaded |-> FALSE,
          transformed |-> FALSE, prev |-> NoData]
    ELSE GetOrInitLoad(c, kind, id, result)

(***************************************************************************)
(* Package resolver (package.rs).                                          *)
(***************************************************************************)
NoPkg == [namespace |-> "", name |-> "", version |-> ""]
PreviewSpec == [namespace |-> "preview", name |-> "p", version |-> "1"]
LocalSpec == [namespace |-> "local", name |-> "q", version |-> "1"]
PackageSpecs == {PreviewSpec, LocalSpec}

\* format!("typst/packages/{}/{}/{}", namespace, name, version)
Subdir(spec) == <<"typst", "packages", spec.namespace, spec.name, spec.version>>
\* data_dir.join(&subdir), cache_dir.join(&subdir)
DataPath(spec) == <<"data">> \o Subdir(spec)
CachePath(spec) == <<"cache">> \o Subdir(spec)
PackagePaths == {DataPath(s) : s \in PackageSpecs} \cup {CachePath(s) : s \in PackageSpecs}

\* format!("{HOST}/preview/{}-{}.tar.gz", name, version)
HOST == "https://packages.typst.org"
Url(spec) == <<HOST, "preview", spec.name, spec.version>>

\* A directory on disk: absent, partially unpacked, or completely unpacked.
DirStates == {"absent", "partial", "complete"}
\* Path::exists
Exists(d, path) == d[path] # "absent"

\* Variant: the cache directory is checked before the data directory.
PkgLookupCacheFirst(spec, ud, d) ==
    IF ud.cache /\ Exists(d, CachePath(spec)) THEN Ok(CachePath(spec))
    ELSE IF ud.data /\ Exists(d, DataPath(spec)) THEN Ok(DataPath(spec))
    ELSE IF ud.cache /\ spec.namespace = "preview" THEN [tag |-> "fetch"]
    ELSE Err("PkgNotFound")

\* Variant: every namespace is fetched on demand.
PkgLookupAnyNamespace(spec, ud, d) ==
    IF ud.data /\ Exists(d, DataPath(spec)) THEN Ok(DataPath(spec))
    ELSE IF ud.cache /\ Exists(d, CachePath(spec)) THEN Ok(CachePath(spec))
    ELSE IF ud.cache THEN [tag |-> "fetch"]
    ELSE Err("PkgNotFound")

\* prepare_package up to the decision to download: the data directory, then
\* the cache directory, then (for "preview" only) the network.
PkgLookup(spec, ud, d) ==
    IF ud.data /\ Exists(d, DataPath(spec)) THEN Ok(DataPath(spec))
    ELSE IF ud.cache /\ Exists(d, CachePath(spec)) THEN Ok(CachePath(spec))
    ELSE IF ud.cache /\ spec.namespace = "preview" THEN [tag |-> "fetch"]
    ELSE Err("PkgNotFound")

\* Outcomes of http_client.get(url).call() followed by read_to_end.
HttpOutcomes == {"ok", "404", "status", "transport", "bodyfail"}
\* Outcomes of tar::Archive::unpack and of the remove_dir_all after a failure.
UnpackOutcomes == {"ok", "fail"}
RemoveOutcomes == {"ok", "fail"}

\* Variant: a 404 response is reported like every other failed request.
DownloadErrorAllNetwork(h) == Err("NetworkFailed")

\* download_package: the error the request / body read maps to.
DownloadError(h) ==
    IF h = "404" THEN Err("PkgNotFound") ELSE Err("NetworkFailed")

\* download_package: tar unpack into package_dir begins (the directory is
\* created and files start to appear in it).
UnpackBegin(d, dir) == [d EXCEPT ![dir] = "partial"]

\* download_package: tar unpack ends; on failure remove_dir_all(dir).ok().
UnpackEnd(d, dir, u, rm) ==
    IF u = "ok" THEN [d EXCEPT ![dir] = "complete"]
    ELSE IF rm = "ok" THEN [d EXCEPT ![dir] = "absent"]
    ELSE d

\* prepare_package after download_package returned Ok: `if dir.exists()`.
AfterDownload(spec, d) ==
    IF Exists(d, CachePath(spec)) THEN Ok(CachePath(spec)) ELSE Err("PkgNotFound")

\* prepare_package run without interruption: the result, the disk after it,
\* the URLs requested and the number of archive unpacks.
PreparePackage(spec, ud, d, h, u, rm) ==
    LET look == PkgLookup(spec, ud, d) IN
    IF look.tag # "fetch"
    THEN [ret |-> look, disk |-> d, urls |-> <<>>, unpacked |-> 0]
    ELSE IF h # "ok"
    THEN [ret |-> DownloadError(h), disk |-> d, urls |-> <<Url(spec)>>, unpacked |-> 0]
    ELSE LET d2 == UnpackEnd(UnpackBegin(d, CachePath(spec)), CachePath(spec), u, rm) IN
         [ret |-> IF u = "ok" THEN AfterDownload(spec, d2) ELSE Err("MalformedArchive"),
          disk |-> d2, urls |-> <<Url(spec)>>, unpacked |-> 1]

(***************************************************************************)
(* Font registry (fonts.rs), as far as CompilerBuilder::build uses it.     *)
(***************************************************************************)
\* OnceLock<Option<Font>> of a LazyFont: not set, or set to a decoded font.
FontUnset == [tag |-> "unset"]
\* A decoded Font is the face `index` of the bytes read from `path` (the
\* embedded fonts come from static bytes: the empty path).
DecodedFont(path, index, info) ==
    [tag |-> "font", info |-> info, path |-> path, index |-> index]
FontSet(info) == DecodedFont("", 0, info)
\* OnceLock set to None: the font could not be loaded.
FontFailed == [tag |-> "nofont"]

\* The faces fontdb finds in a font file: the FontInfo of the face ("" when
\* FontInfo::new yields None) and whether with_face_data can read the face.
FacesOf(path) ==
    CASE path = "A" -> << [info |-> "fam1", index |-> 0, readable |-> TRUE] >>
      [] path = "B" -> << [info |-> "fam1", index |-> 0, readable |-> TRUE],
                          [info |-> "", index |-> 1, readable |-> TRUE],
                          [info |-> "fam2", index |-> 2, readable |-> TRUE] >>
      [] path = "broken" -> << [info |-> "fam3", index |-> 0, readable |-> TRUE],
                               [info |-> "fam4", index |-> 1, readable |-> FALSE] >>
      [] OTHER -> << >>

\* Database::load_font_file fails for a path that cannot be read.
LoadFontFileOk(path) == path # "missing"

\* typst_assets::fonts() under the "embed_typst_fonts" feature.
EmbeddedFonts(embed) ==
    IF embed
    THEN [book |-> <<"emb">>,
          fonts |-> << [path |-> "", index |-> 0, font |-> FontSet("emb"),
                        embedded |-> TRUE] >>]
    ELSE [book |-> << >>, fonts |-> << >>]

\* FontCache::init_default_inner = init_inner(false, None): an empty
\* database, plus the embedded fonts.
InitDefaultInner(embed) == EmbeddedFonts(embed)

GetMutOrInitErrorNoInit(fc, embed) ==
    IF fc.tag = "ok" THEN "ok" ELSE "UninitializedFontCache"
\* FontCache::get_mut_or_init, its Result: init_default_inner() cannot fail
\* (no directory is scanned), and the match on the Option follows.
GetMutOrInitError(fc, embed) ==
    LET font_cache == IF fc.tag = "none" THEN Ok(InitDefaultInner(embed)) ELSE fc IN
    IF font_cache.tag = "ok" THEN "ok" ELSE "UninitializedFontCache"

\* FontCache::get_mut_or_init, the registry it gives
GetMutOrInit(fc, embed) == IF fc.tag = "none" THEN InitDefaultInner(embed) ELSE fc.val

\* Variant: a face whose record is already in the book takes over that slot.
RECURSIVE InsertFromDatabaseReplace(_, _, _)
InsertFromDatabaseReplace(fc, path, faces) ==
    IF faces = << >> THEN [cache |-> fc, res |-> "ok"]
    ELSE LET face == Head(faces)
             slot == [path |-> path, index |-> face.index,
                      font |-> FontUnset, embedded |-> FALSE]
             same == {i \in 1..Len(fc.book) : fc.book[i] = face.info}
         IN
         IF ~face.readable THEN [cache |-> fc, res |-> "FontFaceLoadingError"]
         ELSE IF face.info = "" THEN InsertFromDatabaseReplace(fc, path, Tail(faces))
         ELSE IF same # {}
         THEN InsertFromDatabaseReplace(
                [fc EXCEPT !.fonts[CHOOSE i \in same : TRUE] = slot], path, Tail(faces))
         ELSE InsertFromDatabaseReplace(
                [book |-> Append(fc.book, face.info), fonts |-> Append(fc.fonts, slot)],
                path, Tail(faces))

\* FontCache::insert_from_database: one record and one slot per accepted
\* face, stopping at the first face whose data cannot be read.
RECURSIVE InsertFromDatabaseSlotAlways(_, _, _)
InsertFromDatabaseSlotAlways(fc, path, faces) ==
    IF faces = << >> THEN [cache |-> fc, res |-> "ok"]
    ELSE LET face == Head(faces)
             slot == [path |-> path, index |-> face.index,
                      font |-> FontUnset, embedded |-> FALSE]
         IN
         IF ~face.readable THEN [cache |-> fc, res |-> "FontFaceLoadingError"]
         ELSE InsertFromDatabaseSlotAlways(
                [book |-> IF face.info = "" THEN fc.book ELSE Append(fc.book, face.info),
                 fonts |-> Append(fc.fonts, slot)],
                path, Tail(faces))
RECURSIVE InsertFromDatabase(_, _, _)
InsertFromDatabase(fc, path, faces) ==
    IF faces = << >> THEN [cache |-> fc, res |-> "ok"]
    ELSE LET face == Head(faces) IN
         IF ~face.readable THEN [cache |-> fc, res |-> "FontFaceLoadingError"]
         ELSE IF face.info = "" THEN InsertFromDatabase(fc, path, Tail(faces))
         ELSE InsertFromDatabase(
                [book |-> Append(fc.book, face.info),
                 fonts |-> Append(fc.fonts, [path |-> path, index |-> face.index,
                                             font |-> FontUnset, embedded |-> FALSE])],
                path, Tail(faces))

\* The faces of the database after load_font_file of each path, in order.
RECURSIVE InsertPaths(_, _)
InsertPaths(fc, paths) ==
    IF paths = << >> THEN [cache |-> fc, res |-> "ok"]
    ELSE LET r == InsertFromDatabase(fc, Head(paths), FacesOf(Head(paths))) IN
         IF r.res # "ok" THEN r ELSE InsertPaths(r.cache, Tail(paths))

\* FontCache::insert_many
InsertMany(fc, paths, embed) ==
    LET cache == GetMutOrInit(fc, embed) IN
    IF \E i \in 1..Len(paths) : ~LoadFontFileOk(paths[i])
    THEN [cache |-> cache, res |-> "FontLoadingError"]
    ELSE InsertPaths(cache, paths)

\* FontInfo: the family name and the variant (style, weight, stretch; here
\* one number) of a face.
Family(info) ==
    CASE info = "fam1" -> "Fam"
      [] info = "fam2" -> "fam"
      [] info = "fam3" -> "Gam"
      [] info = "fam4" -> "Gam"
      [] info = "emb" -> "Emb"
      [] OTHER -> ""
Variant(info) ==
    CASE info = "fam2" -> 7
      [] OTHER -> 4
\* str::to_lowercase
ToLowercase(name) ==
    CASE name = "Fam" -> "fam"
      [] name = "Gam" -> "gam"
      [] name = "Emb" -> "emb"
      [] OTHER -> name
\* font.data().len(): the length of the buffer the font was decoded from.
DataLen(font) ==
    CASE font.path = "" -> 5
      [] font.path = "A" -> 2
      [] font.path = "B" -> 3
      [] OTHER -> 1
Distance(a, b) == IF a >= b THEN a - b ELSE b - a

\* FontBook::select(family, variant): among the records of the family (keyed
\* by the lowercased name), the first one whose variant is nearest; 0 when
\* the family is unknown.
BookSelect(book, family, variant) ==
    LET ids == {i \in 1..Len(book) : ToLowercase(Family(book[i])) = family}
        best(i) == \A j \in ids :
                      \/ Distance(Variant(book[i]), variant) < Distance(Variant(book[j]), variant)
                      \/ /\ Distance(Variant(book[i]), variant) = Distance(Variant(book[j]), variant)
                         /\ i <= j
    IN IF ids = {} THEN 0 ELSE CHOOSE i \in ids : best(i)

\* Variant: the cell is read and left as it is.
OnceLockTakeKeeps(cell) == [cell |-> cell, taken |-> cell]

\* OnceLock::take: the cell is emptied and what it held is handed out.
OnceLockTake(cell) == [cell |-> FontUnset, taken |-> cell]

\* OnceLock::set: Err, and no change, unless the cell is empty.
OnceLockSet(cell, v) ==
    IF cell.tag = "unset"
    THEN [cell |-> v, res |-> "ok"]
    ELSE [cell |-> cell, res |-> "err"]

\* update_cache on the slot it selected: take(), then set() of the font
\* (nothing was taken) or of what was taken; `res` is what set() returned.
UpdateSlotSet(old, font) ==
    LET t == OnceLockTake(old) IN
    OnceLockSet(t.cell, IF t.taken.tag = "unset" THEN font ELSE t.taken)

\* Variant: the decoded value of the slot is replaced.
UpdateSlotReplace(old, font) == font

\* update_cache, the match on old_font.font.take(): an unset slot takes the
\* font, a set slot gets its own value back.
UpdateSlot(old, font) == UpdateSlotSet(old, font).cell

\* Variant: the first matching slot that is still unset is looked for.
UpdateTargetFirstCold(cache, font) ==
    LET ids == {i \in 1..Len(cache.book) :
                   /\ cache.book[i] = font.info
                   /\ cache.fonts[i].font.tag = "unset"}
    IN IF ids = {} THEN 0 ELSE CHOOSE i \in ids : \A j \in ids : i <= j

\* update_cache: the slot book.select names for the font's family (in lower
\* case) and variant; 0 when there is none.
UpdateTarget(cache, font) ==
    LET i == BookSelect(cache.book, ToLowercase(Family(font.info)), Variant(font.info))
    IN IF i = 0 \/ i > Len(cache.fonts) THEN 0 ELSE i

\* FontCache::update_cache on an initialised registry.
UpdateCache(cache, font) ==
    LET i == UpdateTarget(cache, font) IN
    IF i = 0 THEN cache
    ELSE [cache EXCEPT !.fonts[i].font = UpdateSlot(@, font)]

\* update_cache: "panic" when the unwrap of set() met an Err.
UpdateCacheResult(cache, font) ==
    LET i == UpdateTarget(cache, font) IN
    IF i = 0 THEN "ok"
    ELSE IF UpdateSlotSet(cache.fonts[i].font, font).res = "ok" THEN "ok" ELSE "panic"

\* Variant: every slot is emptied.
ClearCacheAll(cache, include) ==
    [cache EXCEPT !.fonts = [i \in 1..Len(cache.fonts) |->
                                [cache.fonts[i] EXCEPT !.font = FontUnset]]]

\* FontCache::clear_cache on an initialised registry: font.take() on every
\* slot whose embedded flag equals the argument.
ClearCache(cache, include) ==
    [cache EXCEPT !.fonts = [i \in 1..Len(cache.fonts) |->
                                IF cache.fonts[i].embedded = include
                                THEN [cache.fonts[i] EXCEPT !.font = FontUnset]
                                ELSE cache.fonts[i]]]

\* FontCache::cache_size on an initialised registry: the sum of data().len()
\* over the decoded slots whose embedded flag equals the argument.
RECURSIVE SumSizes(_, _)
SumSizes(fonts, include) ==
    IF fonts = << >> THEN 0
    ELSE (IF Head(fonts).embedded = include /\ Head(fonts).font.tag = "font"
          THEN DataLen(Head(fonts).font) ELSE 0) + SumSizes(Tail(fonts), include)
CacheSize(cache, include) == SumSizes(cache.fonts, include)

\* Variant: an embedded slot is decoded again from the static bytes.
ReadFontEmbeddedAgain(slot) ==
    IF slot.embedded THEN FontSet("emb") ELSE FontFailed

\* LazyFont::get on a slot: the value the OnceLock holds afterwards, read
\* from the slot's path when it was unset.
ReadFont(slot) ==
    LET faces == FacesOf(slot.path)
        ids == {i \in 1..Len(faces) : faces[i].index = slot.index}
    IN IF ids = {} THEN FontFailed
       ELSE LET face == faces[CHOOSE i \in ids : TRUE] IN
            IF face.readable /\ face.info # ""
            THEN DecodedFont(slot.path, slot.index, face.info)
            ELSE FontFailed
LazyFontGet(slot) == IF slot.font.tag = "unset" THEN ReadFont(slot) ELSE slot.font

\* FontCache::insert_one
InsertOne(fc, path, embed) ==
    LET cache == GetMutOrInit(fc, embed) IN
    IF ~LoadFontFileOk(path)
    THEN [cache |-> cache, res |-> "FontLoadingError"]
    ELSE InsertFromDatabase(cache, path, FacesOf(path))

\* Database::load_fonts_dir: the font files found under a directory.
DirFiles(dir) ==
    CASE dir = "D" -> <<"B">>
      [] dir = "E" -> <<"A", "broken">>
      [] OTHER -> << >>
RECURSIVE DirsFiles(_)
DirsFiles(dirs) ==
    IF dirs = << >> THEN << >> ELSE DirFiles(Head(dirs)) \o DirsFiles(Tail(dirs))
\* Database::load_system_fonts
SystemFontPaths == <<"A">>

\* FontCache::insert_dir, FontCache::insert_dirs
InsertDirs(fc, dirs, embed) == InsertPaths(GetMutOrInit(fc, embed), DirsFiles(dirs))
InsertDir(fc, dir, embed) == InsertDirs(fc, <<dir>>, embed)

\* FontCache::init_inner: the faces of the system fonts and of the given
\* directories, then the embedded fonts, in a new registry.
InitInner(sys, dirs, embed) ==
    LET r == InsertPaths([book |-> << >>, fonts |-> << >>],
                         (IF sys THEN SystemFontPaths ELSE << >>) \o DirsFiles(dirs))
        e == EmbeddedFonts(embed)
    IN IF r.res # "ok" THEN r
       ELSE [cache |-> [book |-> r.cache.book \o e.book,
                        fonts |-> r.cache.fonts \o e.fonts],
             res |-> "ok"]

\* Variant: the session reads the registry itself instead of its clones.
SessionViewShared(sess, fc) ==
    IF fc.tag = "none" THEN [book |-> << >>, fonts |-> << >>]
    ELSE [book |-> fc.val.book, fonts |-> fc.val.fonts]

\* Compiler.book / Compiler.fonts: the clones the session owns.
SessionView(sess, fc) == [book |-> sess.book, fonts |-> sess.fonts]

GetBookAndFontsCold(fc, embed) ==
    LET cache == GetMutOrInit(fc, embed) IN
    [cache |-> cache, book |-> cache.book,
     fonts |-> [i \in 1..Len(cache.fonts) |-> [cache.fonts[i] EXCEPT !.font = FontUnset]]]
\* FontCache::get_book_and_fonts: clones of the book and of the slots.
GetBookAndFonts(fc, embed) ==
    LET cache == GetMutOrInit(fc, embed) IN
    [cache |-> cache, book |-> cache.book, fonts |-> cache.fonts]

(***************************************************************************)
(* Inputs and file identities (parameters.rs, builder.rs, compiler.rs).    *)
(***************************************************************************)
\* Input::Content(c) / Input::File { entry, root }.  A root PathBuf is its
\* text and whether it is valid Unicode (Path::to_str yields Some).
ContentInput(c) == [kind |-> "content", text |-> c]
FileInput(entry, root) == [kind |-> "file", entry |-> entry, root |-> root]

\* Input::is_forbidden
is_forbidden(input) ==
    IF input.kind = "content" THEN FALSE
    ELSE IF Contains(input.entry, RESERVED_IN_MEMORY_IDENTIFIER) THEN TRUE
    ELSE IF input.root.utf8
         THEN Contains(input.root.text, RESERVED_IN_MEMORY_IDENTIFIER)
         ELSE FALSE

\* FileId::new(package, vpath)
FileId(package, vpath) == [package |-> package, vpath |-> vpath]
InMemoryId == FileId(NoPkg, RESERVED_IN_MEMORY_IDENTIFIER)

VPaths == { <<"m">>, <<"d", "X", "Y">> }
Ids == {FileId(NoPkg, p) : p \in VPaths} \cup {InMemoryId, FileId(PreviewSpec, <<"l">>)}
Kinds == {"source", "file"}

\* Variant: no identity is answered from memory.
InMemoryFileNever(id) == FALSE

\* The in_memory_file test of Compiler::source.
InMemoryFile(id) == Contains(id.vpath, RESERVED_IN_MEMORY_IDENTIFIER)

\* LazyFile::new
NoSlot == [tag |-> "none"]
NewLazyFile(id) == [id |-> id, source |-> NewCell, file |-> NewCell]

\* Variant: map.insert(id, LazyFile::new(id)), whether or not a slot exists.
EntryInsertAlways(map, id) == [map EXCEPT ![id] = NewLazyFile(id)]

\* map.entry(id).or_insert_with(|| LazyFile::new(id))
EntryOrInsert(map, id) ==
    IF map[id] # NoSlot THEN map ELSE [map EXCEPT ![id] = NewLazyFile(id)]

\* Variant: the guard is dropped after the lookup, before f runs.
SlotGuardDropped(t) == 0

\* Compiler::slot: `map`, the guard of self.files.lock(), lives until f
\* returned, so the caller keeps the lock while it runs the slot operation.
SlotGuardHolder(t) == t

(***************************************************************************)
(* State.                                                                  *)
(***************************************************************************)
VARIABLES
    ucell,        \* a stand-alone LazyCell: its kind and its fields
    ulast,        \* what the last get_or_init on ucell did
    ucalls,       \* number of get_or_init calls applied to ucell
    userDirs,     \* whether dirs::data_dir() / dirs::cache_dir() are Some
    disk,         \* state of each package directory on disk
    httpLog,      \* the URLs requested so far
    unpacks,      \* number of tar unpacks begun so far
    rpc,          \* per resolver: position in prepare_package, spec, result
    embedFeature, \* whether the "embed_typst_fonts" feature is compiled in
    fontCache,    \* FONT_CACHE: None or Some(FontCache)
    sessions,     \* per session: the (book, fonts) it was handed, as it is now
    fop,          \* the last operation on FONT_CACHE: its name, its boolean or
                  \* font argument, the size it returned; n counts them
    phase,        \* "new", "failed", "built", "compiling", "done"
    buildInput,   \* the Input the builder was given
    buildError,   \* the WrapperError of a failed build (kind "" otherwise)
    buildTrace,   \* the steps build() went through, in order
    compiler,     \* the Compiler build() returned: root, entry, book, fonts
    files,        \* Compiler.files: FileId -> LazyFile (NoSlot when absent)
    created,      \* per FileId: number of LazyFile::new calls
    lock,         \* holder of the Compiler.files mutex (0 when free)
    cpc,          \* per caller: position in World::source / World::file
    ret,          \* per caller: the value its last call returned
    ncalls,       \* per caller: number of calls issued
    loads,        \* per cell: number of load() invocations
    gets,         \* per cell: number of completed get_or_init calls
    first,        \* per cell: the value its first get_or_init returned
    atStart,      \* loads and gets at the moment typst::compile started
    rcfg,         \* the export under way: format, "parallel_compilation", pages
    rphase,       \* "idle", "rendering", "returned"
    wpc,          \* per page: "todo", "ok" / "err" (encoded), "done"
    buffer,       \* pages_buffer / shared_pages_buffer: one Vec<u8> per page
    rerrors,      \* the errors collection
    rwrites,      \* per slot of the buffer: the pages whose worker wrote it
    routput,      \* the CompilerOutput returned: output and errors
    now,          \* the session's fixed instant: days since 1970-01-01 and second of the day (UTC)
    tcalls,       \* number of World::today calls made
    tlast         \* the last World::today call: its offset and what it returned

cellVars == <<ucell, ulast, ucalls>>
diskVars == <<userDirs, disk, httpLog, unpacks>>
fontVars == <<embedFeature, fontCache, sessions, fop>>
storeVars == <<phase, buildInput, buildError, buildTrace, compiler, files, created, lock,
               cpc, ret, ncalls, loads, gets, first, atStart>>
todayVars == <<now, tcalls, tlast>>
renderVars == <<rcfg, rphase, wpc, buffer, rerrors, rwrites, routput>>
vars == <<ucell, ulast, ucalls, userDirs, disk, httpLog, unpacks, rpc,
          embedFeature, fontCache, sessions, fop, phase, buildInput, buildError, buildTrace, compiler,
          files, created, lock, cpc, ret, ncalls, loads, gets, first, atStart,
          rcfg, rphase, wpc, buffer, rerrors, rwrites, routput,
          now, tcalls, tlast>>

Resolvers == {1, 2}

EmptyFiles == [id \in Ids |-> NoSlot]
ZeroCells == [id \in Ids |-> [k \in Kinds |-> 0]]
NoFirst == [id \in Ids |-> [k \in Kinds |-> NoData]]
IdleCaller == [pc |-> "idle", op |-> "none", id |-> InMemoryId, via |-> "none"]
\* h and u are the outcomes download_package met in the last resolution
\* ("" when it was not reached).
IdleResolver == [pc |-> "idle", spec |-> NoPkg, ret |-> NoData, n |-> 0,
                 h |-> "", u |-> ""]

\* The values that do not take part in a specification.
CellIdle ==
    /\ ucell = [kind |-> "source", c |-> NewCell]
    /\ ulast = [loaded |-> FALSE, transformed |-> FALSE, prev |-> NoData,
                ret |-> NoData, before |-> NewCell, result |-> NoData]
    /\ ucalls = 0

DiskFresh ==
    /\ userDirs = [data |-> TRUE, cache |-> TRUE]
    /\ disk = [p \in PackagePaths |-> "absent"]
    /\ httpLog = << >>
    /\ unpacks = 0

ResolversIdle == rpc = [r \in Resolvers |-> IdleResolver]

\* No export has been started.
NoOutput == [output |-> NoData, errors |-> << >>]
RenderIdle ==
    /\ rcfg = [fmt |-> "", parallel |-> FALSE, n |-> 0]
    /\ rphase = "idle"
    /\ wpc = << >>
    /\ buffer = << >>
    /\ rerrors = << >>
    /\ rwrites = << >>
    /\ routput = NoOutput

\* No World::today call has been made; the session's `now` is not looked at.
UnixEpoch == [days |-> 0, secs |-> 0]
NoToday == [offset |-> <<0, 0, 0, 0>>, local |-> FALSE, ret |-> NoData]
TodayIdle ==
    /\ now = UnixEpoch
    /\ tcalls = 0
    /\ tlast = NoToday

StoreNew ==
    /\ phase = "new"
    /\ buildInput = [input |-> [kind |-> "none"], canon |-> [root |-> "", entry |-> ""],
                     font_paths |-> << >>]
    /\ buildError = [kind |-> "", path |-> << >>]
    /\ buildTrace = << >>
    /\ compiler = NoData
    /\ files = EmptyFiles
    /\ created = [id \in Ids |-> 0]
    /\ lock = 0
    /\ cpc = [t \in Callers |-> IdleCaller]
    /\ ret = [t \in Callers |-> NoData]
    /\ ncalls = [t \in Callers |-> 0]
    /\ loads = ZeroCells
    /\ gets = ZeroCells
    /\ first = NoFirst
    /\ atStart = [loads |-> ZeroCells, gets |-> ZeroCells]

\* A compilation session before CompilerBuilder::build handed it a snapshot;
\* book0 and slots0 keep what was handed out (cold: no decoded value).
Sessions == {1, 2}
NoSession == [live |-> FALSE, book |-> << >>, fonts |-> << >>,
              book0 |-> << >>, slots0 |-> << >>]
NoFontOp == [n |-> 0, op |-> "", flag |-> FALSE, font |-> FontUnset, size |-> 0, res |-> ""]
SessionsNew ==
    /\ sessions = [s \in Sessions |-> NoSession]
    /\ fop = NoFontOp

FontsNew ==
    /\ embedFeature \in BOOLEAN
    /\ fontCache = NoData
    /\ SessionsNew

(***************************************************************************)
(* The stand-alone cell: get_or_init applied to any LazyCell value.        *)
(***************************************************************************)
UnitId == FileId(NoPkg, <<"m">>)
Fingerprints == {0} \cup {Hash128(r) : r \in LoadResults}

CellDataOf(kind) ==
    IF kind = "source"
    THEN {NoData}
         \cup {Ok([id |-> UnitId, text |-> t, edits |-> 0]) : t \in {<<97>>, <<98>>}}
         \cup {Err(e) : e \in ReadErrors \cup {"InvalidUtf8"}}
    ELSE {NoData}
         \cup {Ok([bytes |-> b]) : b \in RawContents}
         \cup {Err(e) : e \in ReadErrors}

CellInit ==
    /\ \E k \in Kinds, f \in Fingerprints, a \in BOOLEAN :
         \E d \in CellDataOf(k) :
            ucell = [kind |-> k, c |-> [data |-> d, fingerprint |-> f, accessed |-> a]]
    /\ ulast = [loaded |-> FALSE, transformed |-> FALSE, prev |-> NoData,
                ret |-> NoData, before |-> NewCell, result |-> NoData]
    /\ ucalls = 0

\* One get_or_init call on the cell; `result` is what load() yields.
UnitGetOrInit(result) ==
    /\ ucalls < MaxUnitCalls
    /\ LET g == GetOrInit(ucell.c, ucell.kind, UnitId, result) IN
       /\ ucell' = [ucell EXCEPT !.c = g.cell]
       /\ ulast' = [loaded |-> g.loaded, transformed |-> g.transformed,
                    prev |-> g.prev, ret |-> g.ret, before |-> ucell.c,
                    result |-> IF g.loaded THEN result ELSE NoData]
    /\ ucalls' = ucalls + 1
    /\ UNCHANGED <<todayVars, renderVars, diskVars, rpc, fontVars, storeVars>>

(***************************************************************************)
(* CompilerBuilder::build (builder.rs).                                    *)
(***************************************************************************)
NoError == [kind |-> "", path |-> << >>]
WrapperError(kind, path) == [kind |-> kind, path |-> path]

CanonErrorAlwaysNotFound(kind, path) == WrapperError("InputNotFound", path)
\* The map_err closure on canonicalize(): the match on err.kind().
CanonError(kind, path) ==
    IF kind = "notfound" THEN WrapperError("InputNotFound", path)
                         ELSE WrapperError("Io", << >>)

\* entry_path: `entry` pushed onto a clone of `root`.
EntryPath(input) == input.root.text \o <<"/">> \o input.entry

\* The results canonicalize() gave to this build(): "" where it was not
\* called.
CanonCalls(input, cr, ce) ==
    LET called == input.kind = "file" /\ ~is_forbidden(input) IN
    [root |-> IF called THEN cr ELSE "",
     entry |-> IF called /\ cr = "ok" THEN ce ELSE ""]

\* The entry part of build(): the match on self.input.
BuildEntry(input, cr, ce, main, fr) ==
    LET fail(e, tr) == [err |-> e, trace |-> tr, root |-> << >>, entry |-> NoData,
                        files |-> EmptyFiles, mainId |-> InMemoryId, get |-> NoData]
    IN
    IF input.kind = "content"
    THEN [err |-> NoError, trace |-> << >>, root |-> <<".">>,
          entry |-> [id |-> InMemoryId, text |-> input.text, edits |-> 0],
          files |-> EmptyFiles, mainId |-> InMemoryId, get |-> NoData]
    ELSE LET entry_path == EntryPath(input) IN
    IF cr # "ok"
    THEN fail(CanonError(cr, input.root.text), <<"canonicalize_root">>)
    ELSE IF ce # "ok"
    THEN fail(CanonError(ce, entry_path),
              <<"canonicalize_root", "canonicalize_entry">>)
    ELSE IF main = << >>
    THEN fail(WrapperError("InputOutsideRoot", entry_path),
              <<"canonicalize_root", "canonicalize_entry", "within_root">>)
    ELSE LET main_file_id == FileId(NoPkg, main)
             map == EntryOrInsert(EmptyFiles, main_file_id)
             g == GetOrInit(map[main_file_id].source, "source", main_file_id, fr)
             tr == <<"canonicalize_root", "canonicalize_entry", "within_root",
                     "entry_source">>
         IN
         IF g.ret.tag = "err"
         THEN fail(WrapperError("File", << >>), tr)
         ELSE [err |-> NoError, trace |-> tr, root |-> input.root.text,
               entry |-> g.ret.val,
               files |-> [map EXCEPT ![main_file_id].source = g.cell],
               mainId |-> main_file_id, get |-> g]

\* The font part of build(): insert_many when font paths were given, then
\* get_book_and_fonts.
BuildFonts(fontPaths, fc, embed) ==
    IF fontPaths # << >>
    THEN LET ins == InsertMany(fc, fontPaths, embed) IN
         IF ins.res # "ok"
         THEN [err |-> WrapperError(ins.res, << >>), trace |-> <<"insert_many">>,
               cache |-> Ok(ins.cache), book |-> << >>, fonts |-> << >>]
         ELSE LET gb == GetBookAndFonts(Ok(ins.cache), embed) IN
              [err |-> NoError, trace |-> <<"insert_many", "get_book_and_fonts">>,
               cache |-> Ok(gb.cache), book |-> gb.book, fonts |-> gb.fonts]
    ELSE LET gb == GetBookAndFonts(fc, embed) IN
         [err |-> NoError, trace |-> <<"get_book_and_fonts">>,
          cache |-> Ok(gb.cache), book |-> gb.book, fonts |-> gb.fonts]

BuildOutcomeFontsFirst(input, fontPaths, cr, ce, main, fr, fc, embed) ==
    LET f == BuildFonts(fontPaths, fc, embed)
        e == BuildEntry(input, cr, ce, main, fr)
    IN
    IF is_forbidden(input)
    THEN [err |-> WrapperError("ForbiddenFilenamePathText", << >>),
          trace |-> <<"is_forbidden">>, cache |-> f.cache, entry |-> NoData,
          fonts |-> NoData]
    ELSE IF e.err # NoError
         THEN [err |-> e.err, trace |-> <<"is_forbidden">> \o e.trace,
               cache |-> f.cache, entry |-> NoData, fonts |-> NoData]
         ELSE [err |-> f.err, trace |-> <<"is_forbidden">> \o e.trace \o f.trace,
               cache |-> f.cache, entry |-> e, fonts |-> f]
\* build(): the forbidden-name check first, then the entry, then the fonts.
BuildOutcome(input, fontPaths, cr, ce, main, fr, fc, embed) ==
    IF is_forbidden(input)
    THEN [err |-> WrapperError("ForbiddenFilenamePathText", << >>),
          trace |-> <<"is_forbidden">>, cache |-> fc, entry |-> NoData, fonts |-> NoData]
    ELSE LET e == BuildEntry(input, cr, ce, main, fr) IN
         IF e.err # NoError
         THEN [err |-> e.err, trace |-> <<"is_forbidden">> \o e.trace,
               cache |-> fc, entry |-> NoData, fonts |-> NoData]
         ELSE LET f == BuildFonts(fontPaths, fc, embed) IN
              [err |-> f.err, trace |-> <<"is_forbidden">> \o e.trace \o f.trace,
               cache |-> f.cache, entry |-> e, fonts |-> f]

Build(input, fontPaths, cr, ce, main, fr) ==
    /\ phase = "new"
    /\ LET b == BuildOutcome(input, fontPaths, cr, ce, main, fr, fontCache, embedFeature)
       IN
       /\ buildInput' = [input |-> input, canon |-> CanonCalls(input, cr, ce),
                          font_paths |-> fontPaths]
       /\ buildError' = b.err
       /\ buildTrace' = b.trace
       /\ fontCache' = b.cache
       /\ IF b.err # NoError
          THEN /\ phase' = "failed"
               /\ UNCHANGED <<compiler, files, created, loads, gets, first>>
          ELSE /\ phase' = "built"
               /\ compiler' = Ok([root |-> b.entry.root, entry |-> b.entry.entry,
                                  book |-> b.fonts.book, fonts |-> b.fonts.fonts])
               /\ files' = b.entry.files
               /\ IF b.entry.get = NoData
                  THEN UNCHANGED <<created, loads, gets, first>>
                  ELSE LET m == b.entry.mainId IN
                       /\ created' = [created EXCEPT ![m] = 1]
                       /\ loads' = [loads EXCEPT ![m]["source"] =
                                        IF b.entry.get.loaded THEN 1 ELSE 0]
                       /\ gets' = [gets EXCEPT ![m]["source"] = 1]
                       /\ first' = [first EXCEPT ![m]["source"] = b.entry.get.ret]
    /\ UNCHANGED <<todayVars, renderVars, cellVars, diskVars, rpc, embedFeature, sessions, fop, lock, cpc, ret,
                   ncalls, atStart>>

(***************************************************************************)
(* The Compiler as typst's World (compiler.rs): source, file, slot.        *)
(***************************************************************************)
CellOf(slot, kind) == IF kind = "source" THEN slot.source ELSE slot.file
WithCellResetOther(slot, kind, c) ==
    IF kind = "source" THEN [slot EXCEPT !.source = c, !.file = NewCell]
                       ELSE [slot EXCEPT !.file = c, !.source = NewCell]
\* self.source.get_or_init(..) / self.file.get_or_init(..): the operation
\* works on its own cell of the slot.
WithCell(slot, kind, c) ==
    IF kind = "source" THEN [slot EXCEPT !.source = c] ELSE [slot EXCEPT !.file = c]

\* The load closure of LazyFile::source / LazyFile::file: system_path (with
\* prepare_package for a package id) and read_from_disk.  `fr` is the
\* outcome of vpath.resolve + read_from_disk.
SystemPathAndRead(id, ud, d, h, u, rm, fr) ==
    IF id.package = NoPkg
    THEN [result |-> fr, disk |-> d, urls |-> << >>, unpacked |-> 0]
    ELSE LET pp == PreparePackage(id.package, ud, d, h, u, rm) IN
         [result |-> IF pp.ret.tag = "ok" THEN fr ELSE pp.ret,
          disk |-> pp.disk, urls |-> pp.urls, unpacked |-> pp.unpacked]

\* Number of World::source / World::file calls issued so far.
CallsIssued == ncalls[1] + ncalls[2]

\* compile_paged_document / compile_html_document: typst::compile(&self) begins.
CompileStart ==
    /\ phase = "built"
    /\ phase' = "compiling"
    /\ atStart' = [loads |-> loads, gets |-> gets]
    /\ UNCHANGED <<todayVars, renderVars, cellVars, diskVars, rpc, fontVars, buildInput, buildError,
                   buildTrace, compiler, files, created, lock, cpc, ret, ncalls,
                   loads, gets, first>>

\* World::source(id): the in-memory test, else the call of self.slot.
CallSource(t, id) ==
    /\ phase = "compiling"
    /\ cpc[t].pc = "idle"
    /\ CallsIssued < MaxCalls
    /\ ncalls' = [ncalls EXCEPT ![t] = @ + 1]
    /\ IF InMemoryFile(id)
       THEN /\ cpc' = [cpc EXCEPT ![t] = [pc |-> "idle", op |-> "source",
                                          id |-> id, via |-> "mem"]]
            /\ ret' = [ret EXCEPT ![t] = Ok(compiler.val.entry)]
       ELSE /\ cpc' = [cpc EXCEPT ![t] = [pc |-> "wait", op |-> "source",
                                          id |-> id, via |-> "cell"]]
            /\ UNCHANGED ret
    /\ UNCHANGED <<todayVars, renderVars, cellVars, diskVars, rpc, fontVars, phase, buildInput, buildError,
                   buildTrace, compiler, files, created, lock, loads, gets, first,
                   atStart>>

\* World::file(id): the call of self.slot.
CallFile(t, id) ==
    /\ phase = "compiling"
    /\ cpc[t].pc = "idle"
    /\ CallsIssued < MaxCalls
    /\ ncalls' = [ncalls EXCEPT ![t] = @ + 1]
    /\ cpc' = [cpc EXCEPT ![t] = [pc |-> "wait", op |-> "file", id |-> id,
                                  via |-> "cell"]]
    /\ UNCHANGED <<todayVars, renderVars, cellVars, diskVars, rpc, fontVars, phase, buildInput, buildError,
                   buildTrace, compiler, files, created, lock, ret, loads, gets,
                   first, atStart>>

\* Compiler::slot: lock the map, look the slot up or insert it, and begin
\* get_or_init on the cell: a cached result of an accessed cell is returned
\* (and the guard dropped); otherwise load() is about to run.
Enter(t) ==
    /\ cpc[t].pc = "wait"
    /\ lock = 0
    /\ LET id == cpc[t].id
           k == cpc[t].op
           map == EntryOrInsert(files, id)
           c == CellOf(map[id], k)
       IN
       /\ files' = map
       /\ created' = [created EXCEPT ![id] = IF map[id] # files[id] THEN @ + 1 ELSE @]
       /\ IF CellHit(c)
          THEN /\ ret' = [ret EXCEPT ![t] = c.data]
               /\ cpc' = [cpc EXCEPT ![t].pc = "idle"]
               /\ gets' = [gets EXCEPT ![id][k] = @ + 1]
               /\ first' = [first EXCEPT ![id][k] = IF gets[id][k] = 0 THEN c.data ELSE @]
               /\ lock' = 0
          ELSE /\ cpc' = [cpc EXCEPT ![t].pc = "load"]
               /\ lock' = SlotGuardHolder(t)
               /\ UNCHANGED <<ret, gets, first>>
    /\ UNCHANGED <<todayVars, renderVars, cellVars, diskVars, rpc, fontVars, phase, buildInput, buildError,
                   buildTrace, compiler, ncalls, loads, atStart>>

\* The rest of the slot operation: load() runs (package resolution and file
\* read), get_or_init finishes, f returns and the guard is dropped.
Load(t, fr, h, u, rm) ==
    /\ cpc[t].pc = "load"
    /\ LET id == cpc[t].id
           k == cpc[t].op
           sp == SystemPathAndRead(id, userDirs, disk, h, u, rm, fr)
           g == GetOrInitLoad(CellOf(files[id], k), k, id, sp.result)
       IN
       /\ files' = [files EXCEPT ![id] = WithCell(@, k, g.cell)]
       /\ ret' = [ret EXCEPT ![t] = g.ret]
       /\ loads' = [loads EXCEPT ![id][k] = @ + 1]
       /\ gets' = [gets EXCEPT ![id][k] = @ + 1]
       /\ first' = [first EXCEPT ![id][k] = IF gets[id][k] = 0 THEN g.ret ELSE @]
       /\ disk' = sp.disk
       /\ httpLog' = httpLog \o sp.urls
       /\ unpacks' = unpacks + sp.unpacked
    /\ cpc' = [cpc EXCEPT ![t].pc = "idle"]
    /\ lock' = IF lock = t THEN 0 ELSE lock
    /\ UNCHANGED <<todayVars, renderVars, cellVars, userDirs, rpc, fontVars, phase, buildInput, buildError,
                   buildTrace, compiler, created, ncalls, atStart>>

\* typst::compile returned: every call into the World has returned.
CompileEnd ==
    /\ phase = "compiling"
    /\ \A t \in Callers : cpc[t].pc = "idle"
    /\ phase' = "done"
    /\ UNCHANGED <<todayVars, renderVars, cellVars, diskVars, rpc, fontVars, buildInput, buildError,
                   buildTrace, compiler, files, created, lock, cpc, ret, ncalls,
                   loads, gets, first, atStart>>

(***************************************************************************)
(* prepare_package, step by step, run by concurrent resolvers.             *)
(***************************************************************************)
\* prepare_package is called: the two exists() checks and the namespace test.
PkgStart(r, spec) ==
    /\ rpc[r].pc = "idle"
    /\ rpc[r].n < MaxResolves
    /\ LET look == PkgLookup(spec, userDirs, disk) IN
       rpc' = [rpc EXCEPT ![r] =
                 IF look.tag = "fetch"
                 THEN [pc |-> "request", spec |-> spec, ret |-> NoData, n |-> @.n + 1,
                       h |-> "", u |-> ""]
                 ELSE [pc |-> "idle", spec |-> spec, ret |-> look, n |-> @.n + 1,
                       h |-> "", u |-> ""]]
    /\ UNCHANGED <<todayVars, renderVars, cellVars, diskVars, fontVars, storeVars>>

\* download_package: the GET request and the read of the body.
PkgRequest(r, h) ==
    /\ rpc[r].pc = "request"
    /\ httpLog' = Append(httpLog, Url(rpc[r].spec))
    /\ rpc' = [rpc EXCEPT ![r] =
                 IF h = "ok" THEN [@ EXCEPT !.pc = "unpack", !.h = h]
                 ELSE [@ EXCEPT !.pc = "idle", !.h = h, !.ret = DownloadError(h)]]
    /\ UNCHANGED <<todayVars, renderVars, cellVars, userDirs, disk, unpacks, fontVars, storeVars>>

\* download_package: tar unpack begins to write into the cache directory.
PkgUnpackBegin(r) ==
    /\ rpc[r].pc = "unpack"
    /\ disk' = UnpackBegin(disk, CachePath(rpc[r].spec))
    /\ unpacks' = unpacks + 1
    /\ rpc' = [rpc EXCEPT ![r].pc = "unpacking"]
    /\ UNCHANGED <<todayVars, renderVars, cellVars, userDirs, httpLog, fontVars, storeVars>>

\* download_package: tar unpack ends (a failure removes the directory), and
\* prepare_package returns.
PkgUnpackEnd(r, u, rm) ==
    /\ rpc[r].pc = "unpacking"
    /\ LET d2 == UnpackEnd(disk, CachePath(rpc[r].spec), u, rm) IN
       /\ disk' = d2
       /\ rpc' = [rpc EXCEPT ![r] =
                    [@ EXCEPT !.pc = "idle", !.u = u,
                              !.ret = IF u = "ok" THEN AfterDownload(rpc[r].spec, d2)
                                      ELSE Err("MalformedArchive")]]
    /\ UNCHANGED <<todayVars, renderVars, cellVars, userDirs, httpLog, unpacks, fontVars, storeVars>>

(***************************************************************************)
(* The global font registry FONT_CACHE and the sessions (fonts.rs).  Every *)
(* operation locks FONT_CACHE for its whole body: one step each.           *)
(***************************************************************************)
FontOp(op, flag, font, size) ==
    [n |-> fop.n + 1, op |-> op, flag |-> flag, font |-> font, size |-> size,
     res |-> "ok"]
\* The `?` after get_mut_or_init: the operation returns the error at once.
FontOpFailed(op, flag, err) ==
    /\ fop' = [FontOp(op, flag, FontUnset, 0) EXCEPT !.res = err]
    /\ UNCHANGED <<fontCache, sessions>>
FontOthers == <<cellVars, diskVars, rpc, storeVars, renderVars, todayVars, embedFeature>>

\* init_default(), init(sys), init_with_dirs(sys, dirs): a new registry
\* replaces FONT_CACHE unless init_inner failed.
FcInitWith(sys, dirs) ==
    /\ fop.n < MaxFontOps
    /\ LET r == InitInner(sys, dirs, embedFeature) IN
       /\ fontCache' = IF r.res = "ok" THEN Ok(r.cache) ELSE fontCache
       /\ fop' = [FontOp("init", FALSE, FontUnset, 0) EXCEPT !.res = r.res]
    /\ UNCHANGED <<FontOthers, sessions>>
FcInitDefault == FcInitWith(FALSE, << >>)
FcInit(sys) == FcInitWith(sys, << >>)
FcInitWithDirs(sys, dirs) == FcInitWith(sys, dirs)

\* insert_one, insert_many, insert_dir, insert_dirs
FcInsert(r) ==
    /\ fop.n < MaxFontOps
    /\ LET e == GetMutOrInitError(fontCache, embedFeature) IN
       IF e # "ok" THEN FontOpFailed("insert", FALSE, e)
       ELSE /\ fontCache' = Ok(r.cache)
            /\ fop' = [FontOp("insert", FALSE, FontUnset, 0) EXCEPT !.res = r.res]
            /\ UNCHANGED sessions
    /\ UNCHANGED FontOthers
FcInsertOne(path) ==
    FcInsert(InsertOne(fontCache, path, embedFeature))
FcInsertMany(paths) ==
    FcInsert(InsertMany(fontCache, paths, embedFeature))
FcInsertDir(dir) ==
    FcInsert(InsertDir(fontCache, dir, embedFeature))
FcInsertDirs(dirs) ==
    FcInsert(InsertDirs(fontCache, dirs, embedFeature))

\* clear_cache(include_embedded_fonts)
FcClearCache(include) ==
    /\ fop.n < MaxFontOps
    /\ LET cache == GetMutOrInit(fontCache, embedFeature)
           e == GetMutOrInitError(fontCache, embedFeature)
       IN
       IF e # "ok" THEN FontOpFailed("clear_cache", include, e)
       ELSE /\ fontCache' = Ok(ClearCache(cache, include))
            \* recorded: the bytes of the decoded values that were to be dropped
            /\ fop' = FontOp("clear_cache", include, FontUnset, CacheSize(cache, include))
            /\ UNCHANGED sessions
    /\ UNCHANGED FontOthers

\* cache_size(include_embedded_fonts)
FcCacheSize(include) ==
    /\ fop.n < MaxFontOps
    /\ LET cache == GetMutOrInit(fontCache, embedFeature)
           e == GetMutOrInitError(fontCache, embedFeature)
       IN
       IF e # "ok" THEN FontOpFailed("cache_size", include, e)
       ELSE /\ fontCache' = Ok(cache)
            /\ fop' = FontOp("cache_size", include, FontUnset, CacheSize(cache, include))
            /\ UNCHANGED sessions
    /\ UNCHANGED FontOthers

\* update_cache(font), called when a compilation is over
FcUpdateCache(s, i) ==
    /\ fop.n < MaxFontOps
    /\ sessions[s].live
    /\ i \in 1..Len(sessions[s].fonts)
    /\ sessions[s].fonts[i].font.tag = "font"
    /\ LET font == sessions[s].fonts[i].font
           e == GetMutOrInitError(fontCache, embedFeature)
       IN
       IF e # "ok" THEN FontOpFailed("update_cache", FALSE, e)
       ELSE /\ fontCache' = Ok(UpdateCache(GetMutOrInit(fontCache, embedFeature), font))
            /\ fop' = [FontOp("update_cache", FALSE, font, 0) EXCEPT
                          !.res = UpdateCacheResult(GetMutOrInit(fontCache, embedFeature),
                                                    font)]
            /\ UNCHANGED sessions
    /\ UNCHANGED FontOthers

\* CompilerBuilder::build: get_book_and_fonts hands the session its clones.
FcGetBookAndFonts(s) ==
    /\ ~sessions[s].live
    \* sessions are numbered in the order in which they are built
    /\ \A q \in Sessions : (q < s) => sessions[q].live
    /\ LET gb == GetBookAndFonts(fontCache, embedFeature) IN
       IF GetMutOrInitError(fontCache, embedFeature) # "ok"
       THEN UNCHANGED <<fontCache, sessions>>
       ELSE
       /\ fontCache' = Ok(gb.cache)
       /\ sessions' = [sessions EXCEPT ![s] =
                          [live |-> TRUE, book |-> gb.book, fonts |-> gb.fonts,
                           book0 |-> gb.book,
                           slots0 |-> [i \in 1..Len(gb.fonts) |->
                                          [path |-> gb.fonts[i].path,
                                           index |-> gb.fonts[i].index,
                                           embedded |-> gb.fonts[i].embedded,
                                           cold |-> gb.fonts[i].font.tag = "unset"]]]]
    /\ UNCHANGED <<FontOthers, fop>>

\* Compiler::font(index): self.fonts.get(index)?.get()
SessionFont(s, i) ==
    /\ sessions[s].live
    /\ LET view == SessionView(sessions[s], fontCache) IN
       IF i \in 1..Len(view.fonts)
       THEN LET v == LazyFontGet(view.fonts[i]) IN
            sessions' = [sessions EXCEPT ![s].fonts =
                             [j \in 1..Len(view.fonts) |->
                                 IF j = i THEN [view.fonts[j] EXCEPT !.font = v]
                                 ELSE view.fonts[j]],
                                         ![s].book = view.book]
       ELSE UNCHANGED sessions
    /\ UNCHANGED <<FontOthers, fontCache, fop>>

(***************************************************************************)
(* Inputs of the actions.                                                  *)
(***************************************************************************)
Roots == { [utf8 |-> TRUE, text |-> <<"r">>],
           [utf8 |-> TRUE, text |-> <<"r", "X", "Y">>],
           [utf8 |-> FALSE, text |-> <<"r">>],
           [utf8 |-> FALSE, text |-> <<"r", "X", "Y">>] }
Entries == { <<"m">>, <<"m", "X", "Y">> }
Inputs == {ContentInput(<<97>>)} \cup {FileInput(e, r) : e \in Entries, r \in Roots}
FontPathChoices == { << >>, <<"A", "B">>, <<"missing">>, <<"A", "broken">> }
CanonOutcomes == {"ok", "notfound", "ioerr"}
\* VirtualPath::within_root: the entry's path within the root (a symlinked
\* entry canonicalizes to another name), or << >> when it is outside.
MainPaths == { << >>, <<"m">>, <<"d", "X", "Y">> }
\* What a file read yields during a compilation.
ReadResults == { Ok(<<97>>), Err("NotFound") }

(***************************************************************************)
(* Spec: one Compiler, from build() to the end of typst::compile, with     *)
(* concurrent callers of World::source / World::file.                      *)
(***************************************************************************)
Init ==
    /\ CellIdle /\ DiskFresh /\ ResolversIdle /\ StoreNew /\ RenderIdle /\ TodayIdle
    /\ embedFeature = FALSE
    /\ fontCache = NoData
    /\ SessionsNew

Next ==
    \/ \E input \in {ContentInput(<<97>>), FileInput(<<"m">>, [utf8 |-> TRUE, text |-> <<"r">>])},
          main \in MainPaths \ { << >> }, fr \in ReadResults :
            Build(input, << >>, "ok", "ok", main, fr)
    \/ CompileStart
    \/ \E t \in Callers, id \in Ids : CallSource(t, id)
    \/ \E t \in Callers, id \in Ids : CallFile(t, id)
    \/ \E t \in Callers : Enter(t)
    \/ \E t \in Callers, fr \in ReadResults, h \in {"ok", "404"},
          u \in UnpackOutcomes : Load(t, fr, h, u, "ok")
    \/ CompileEnd

Spec == Init /\ [][Next]_vars

(***************************************************************************)
(* CellSpec: get_or_init applied repeatedly to a LazyCell of any value.    *)
(***************************************************************************)
CellSpecInit ==
    CellInit /\ DiskFresh /\ ResolversIdle /\ FontsNew /\ StoreNew /\ RenderIdle /\ TodayIdle
CellNext == \E result \in LoadResults : UnitGetOrInit(result)
CellSpec == CellSpecInit /\ [][CellNext]_vars

(***************************************************************************)
(* BuildSpec: build() on any input, with any state of the font registry.   *)
(***************************************************************************)
BuildInit ==
    /\ CellIdle /\ DiskFresh /\ ResolversIdle /\ StoreNew /\ RenderIdle /\ TodayIdle
    /\ embedFeature \in BOOLEAN
    /\ fontCache \in {NoData, Ok(InitDefaultInner(embedFeature)),
                      Ok(InsertMany(NoData, <<"A">>, embedFeature).cache)}
    /\ SessionsNew
BuildNext ==
    \E input \in Inputs, fp \in FontPathChoices, cr \in CanonOutcomes,
       ce \in CanonOutcomes, main \in MainPaths, fr \in LoadResults :
         Build(input, fp, cr, ce, main, fr)
BuildSpec == BuildInit /\ [][BuildNext]_vars

(***************************************************************************)
(* PkgSpec: two resolvers run prepare_package on a shared disk.            *)
(***************************************************************************)
FontPaths == {"A", "missing"}
FontPathLists == {<<"A", "B">>}
FontDirs == {"E"}
FontDirLists == {<<"D">>}
SlotIndexes == 1..2

(***************************************************************************)
(* FontSpec: the operations on the global font registry and two sessions.  *)
(***************************************************************************)
FontInit ==
    /\ CellIdle /\ DiskFresh /\ ResolversIdle /\ StoreNew /\ RenderIdle /\ TodayIdle
    /\ FontsNew
FontNext ==
    \/ FcInitDefault
    \/ FcInit(TRUE)
    \/ \E dirs \in FontDirLists : FcInitWithDirs(FALSE, dirs)
    \/ \E path \in FontPaths : FcInsertOne(path)
    \/ \E paths \in FontPathLists : FcInsertMany(paths)
    \/ \E dir \in FontDirs : FcInsertDir(dir)
    \/ \E dirs \in FontDirLists : FcInsertDirs(dirs)
    \/ \E include \in BOOLEAN : FcClearCache(include)
    \/ \E include \in BOOLEAN : FcCacheSize(include)
    \/ \E s \in Sessions, i \in SlotIndexes : FcUpdateCache(s, i)
    \/ \E s \in Sessions : FcGetBookAndFonts(s)
    \/ \E s \in Sessions, i \in SlotIndexes : SessionFont(s, i)
FontSpec == FontInit /\ [][FontNext]_vars

PkgInit ==
    /\ CellIdle /\ ResolversIdle /\ StoreNew /\ RenderIdle /\ TodayIdle
    /\ embedFeature = FALSE
    /\ fontCache = NoData
    /\ SessionsNew
    /\ userDirs \in [data : BOOLEAN, cache : BOOLEAN]
    /\ disk \in [PackagePaths -> {"absent", "complete"}]
    \* nothing exists under a directory the process does not know
    /\ \A s \in PackageSpecs :
          /\ (~userDirs.data) => (disk[DataPath(s)] = "absent")
          /\ (~userDirs.cache) => (disk[CachePath(s)] = "absent")
    /\ httpLog = << >>
    /\ unpacks = 0
PkgNext ==
    \/ \E r \in Resolvers, spec \in PackageSpecs : PkgStart(r, spec)
    \/ \E r \in Resolvers, h \in HttpOutcomes : PkgRequest(r, h)
    \/ \E r \in Resolvers : PkgUnpackBegin(r)
    \/ \E r \in Resolvers, u \in UnpackOutcomes, rm \in RemoveOutcomes :
          PkgUnpackEnd(r, u, rm)
PkgSpec == PkgInit /\ [][PkgNext]_vars

(***************************************************************************)
(* Export: Compiler::compile_pdf / compile_png / compile_svg / compile_html.*)
(* typst::compile gives a document or its errors; png and svg then encode  *)
(* every page, either in a for loop or (feature "parallel_compilation") in *)
(* one rayon closure per page, the closures running in any interleaving.   *)
(* Pages are numbered from 1 here (page_index + 1).                        *)
(***************************************************************************)
MaxPages == 3
Formats == {"pdf", "png", "svg", "html"}
Paged == {"png", "svg"}

\* typst::compile: Err(diagnostics) or a document of n pages.
CompileOutcomes == {Err(<<"compile">>)} \cup {Ok(n) : n \in 1..MaxPages}

\* The bytes the encoder gives for a page: a PNG or SVG file is never empty.
PageBytes(page_index) == <<page_index>>

\* err.to_string() of a failed encode_png: the text of the diagnostic.
EncodingErrors == {"encoding", "io"}

\* typst_render::render(..).encode_png() is a Result; typst_svg::svg(..) is
\* a String.
EncodeOutcomes(fmt, page_index) ==
    IF fmt = "png"
    THEN {Ok(PageBytes(page_index))} \cup {Err(e) : e \in EncodingErrors}
                   ELSE {Ok(PageBytes(page_index))}

\* vec![Vec::new(); pages_count]
AllocBuffer(pages_count) == [i \in 1..pages_count |-> << >>]

\* One closure / loop body per page, not yet run.
\* rank: the position of the body among those that have finished.
NewWorker == [pc |-> "todo", runs |-> 0, res |-> NoData, rank |-> 0]

\* The loop body for page i may begin: the for loop takes the pages in
\* order, one at a time; the parallel iterator starts them in any order.
CanStart(cfg, w, i) ==
    /\ w[i].pc = "todo"
    /\ (~cfg.parallel) => (\A j \in 1..(i - 1) : w[j].pc = "done")

StorePageAppend(pages_buffer, page_index, buf) == Append(pages_buffer, buf)
StorePageFirstFree(pages_buffer, page_index, buf) ==
    LET free == {s \in DOMAIN pages_buffer : pages_buffer[s] = << >>}
        slot == CHOOSE s \in free : \A u \in free : s <= u
    IN  [pages_buffer EXCEPT ![slot] = buf]
\* pages_buffer[page_index] = buf
StorePage(pages_buffer, page_index, buf) ==
    [pages_buffer EXCEPT ![page_index] = buf]

\* The slots a store changed.
WrittenSlots(old, new) ==
    {s \in DOMAIN new : s \notin DOMAIN old \/ new[s] # old[s]}

PushErrorOnce(errors, encoding_error) ==
    IF \E k \in DOMAIN errors : errors[k] = encoding_error
    THEN errors ELSE Append(errors, encoding_error)
\* pages_errors.push(encoding_error)
PushError(errors, encoding_error) == Append(errors, encoding_error)

LoopDoneOnError(w) ==
    \/ \A i \in DOMAIN w : w[i].pc = "done"
    \/ \E i \in DOMAIN w : w[i].pc = "done" /\ w[i].res.tag = "err"
\* The for loop / collect() is over: every page's body has run to its end.
LoopDone(w) == \A i \in DOMAIN w : w[i].pc = "done"

\* final_pages.iter().any(|x| x.is_empty())
EncodingErrorOccured(final_pages) ==
    \E i \in DOMAIN final_pages : final_pages[i] = << >>

\* Discards all pages if any encountered an error.
FinalOutput(final_pages) ==
    IF EncodingErrorOccured(final_pages) THEN NoData ELSE Ok(final_pages)

PdfResultKeepsBytes(out, errors) ==
    [output |-> Ok(<<0>>),
     errors |-> IF out = "ok" THEN errors ELSE Append(errors, out)]
\* compile_pdf after the document exists: PdfStandards::new and
\* typst_pdf::pdf either give the bytes or add their errors.
PdfResult(out, errors) ==
    CASE out = "standards" -> [output |-> NoData, errors |-> Append(errors, "standards")]
      [] out = "pdf"       -> [output |-> NoData, errors |-> errors \o <<"pdf">>]
      [] OTHER             -> [output |-> Ok(<<0>>), errors |-> errors]

\* compile_html after the document exists.
HtmlResult(out, errors) ==
    IF out = "ok" THEN [output |-> Ok("html"), errors |-> errors]
                  ELSE [output |-> NoData, errors |-> errors \o <<"html">>]

\* The sequential block of compile_png as one function of the pages'
\* encode outcomes: the for loop from page `i` on, then the emptiness test.
RECURSIVE SequentialLoop(_, _, _, _)
SequentialLoop(outcomes, i, pages_buffer, pages_errors) ==
    IF i > Len(outcomes) THEN [pages |-> pages_buffer, errors |-> pages_errors]
    ELSE IF outcomes[i].tag = "ok"
         THEN SequentialLoop(outcomes, i + 1,
                             StorePage(pages_buffer, i, outcomes[i].val), pages_errors)
         ELSE SequentialLoop(outcomes, i + 1, pages_buffer,
                             PushError(pages_errors, outcomes[i].err))
SequentialPng(outcomes) ==
    LET r == SequentialLoop(outcomes, 1, AllocBuffer(Len(outcomes)), << >>) IN
    [output |-> FinalOutput(r.pages), errors |-> r.errors]

RenderOthers == <<cellVars, diskVars, rpc, fontVars, storeVars, todayVars>>

\* compile_paged_document / compile_html_document and the early return.
RenderCompile(fmt, parallel, outcome) ==
    /\ rphase = "idle"
    /\ rcfg' = [fmt |-> fmt, parallel |-> parallel,
                n |-> IF outcome.tag = "ok" THEN outcome.val ELSE 0]
    /\ IF outcome.tag = "err"
       THEN /\ rphase' = "returned"
            /\ routput' = [output |-> NoData, errors |-> outcome.err]
            /\ UNCHANGED <<wpc, buffer, rerrors, rwrites>>
       ELSE /\ rphase' = "rendering"
            /\ rerrors' = << >>
            /\ buffer' = IF fmt \in Paged THEN AllocBuffer(outcome.val) ELSE << >>
            /\ wpc' = IF fmt \in Paged THEN [i \in 1..outcome.val |-> NewWorker]
                                       ELSE << >>
            /\ rwrites' = IF fmt \in Paged THEN [i \in 1..outcome.val |-> << >>]
                                           ELSE << >>
            /\ UNCHANGED routput
    /\ UNCHANGED RenderOthers

\* The body for page i renders and encodes the page.
RenderEncode(i, out) ==
    /\ rphase = "rendering" /\ rcfg.fmt \in Paged
    /\ i \in DOMAIN wpc
    /\ CanStart(rcfg, wpc, i)
    /\ out \in EncodeOutcomes(rcfg.fmt, i)
    /\ wpc' = [wpc EXCEPT ![i] = [@ EXCEPT !.pc = "encoded", !.runs = @ + 1, !.res = out]]
    /\ UNCHANGED <<rcfg, rphase, buffer, rerrors, rwrites, routput, RenderOthers>>

\* The body for page i stores its bytes, or pushes its diagnostic, under the
\* lock of the buffer or of the errors.
RenderStore(i) ==
    /\ rphase = "rendering" /\ rcfg.fmt \in Paged
    /\ i \in DOMAIN wpc
    /\ wpc[i].pc = "encoded"
    /\ IF wpc[i].res.tag = "ok"
       THEN /\ buffer' = StorePage(buffer, i, wpc[i].res.val)
            /\ rwrites' = [s \in DOMAIN rwrites |->
                              IF s \in WrittenSlots(buffer, buffer')
                              THEN Append(rwrites[s], i) ELSE rwrites[s]]
            /\ UNCHANGED rerrors
       ELSE /\ rerrors' = PushError(rerrors, wpc[i].res.err)
            /\ UNCHANGED <<buffer, rwrites>>
    /\ wpc' = [wpc EXCEPT ![i].pc = "done",
                           ![i].rank = Cardinality({j \in DOMAIN wpc : wpc[j].pc = "done"}) + 1]
    /\ UNCHANGED <<rcfg, rphase, routput, RenderOthers>>

\* After the loop: the emptiness test and the return of compile_png/svg.
RenderFinish ==
    /\ rphase = "rendering" /\ rcfg.fmt \in Paged
    /\ LoopDone(wpc)
    /\ routput' = [output |-> FinalOutput(buffer), errors |-> rerrors]
    /\ rphase' = "returned"
    /\ UNCHANGED <<rcfg, wpc, buffer, rerrors, rwrites, RenderOthers>>

\* compile_pdf after the document exists.
ExportPdf(out) ==
    /\ rphase = "rendering" /\ rcfg.fmt = "pdf"
    /\ routput' = PdfResult(out, rerrors)
    /\ rphase' = "returned"
    /\ UNCHANGED <<rcfg, wpc, buffer, rerrors, rwrites, RenderOthers>>

\* compile_html after the document exists.
ExportHtml(out) ==
    /\ rphase = "rendering" /\ rcfg.fmt = "html"
    /\ routput' = HtmlResult(out, rerrors)
    /\ rphase' = "returned"
    /\ UNCHANGED <<rcfg, wpc, buffer, rerrors, rwrites, RenderOthers>>

PdfOutcomes == {"ok", "standards", "pdf"}
HtmlOutcomes == {"ok", "html"}

RenderInit ==
    /\ CellIdle /\ DiskFresh /\ ResolversIdle /\ FontsNew /\ StoreNew /\ RenderIdle /\ TodayIdle
RenderNext ==
    \/ \E fmt \in Formats, parallel \in BOOLEAN, outcome \in CompileOutcomes :
          RenderCompile(fmt, parallel, outcome)
    \/ \E i \in 1..MaxPages, out \in {Ok(PageBytes(j)) : j \in 1..MaxPages}
                                      \cup {Err(e) : e \in EncodingErrors} :
          RenderEncode(i, out)
    \/ \E i \in 1..MaxPages : RenderStore(i)
    \/ RenderFinish
    \/ \E out \in PdfOutcomes : ExportPdf(out)
    \/ \E out \in HtmlOutcomes : ExportHtml(out)
RenderSpec == RenderInit /\ [][RenderNext]_vars

\* The loop and the rayon pool keep running until every body has returned,
\* and the function then returns.
RenderFairSpec == RenderSpec /\ WF_vars(RenderNext)

(***************************************************************************)
(* World::today.  An i64 is kept as its four 16-bit limbs, most            *)
(* significant first, in two's complement.                                 *)
(***************************************************************************)
I32Max == 2147483647
I32Min == -I32Max - 1
SecondsPerHour == 3600
SecondsPerDay == 86400
Limb == 2^16

\* The i64 whose value is the integer n (n within the 32-bit range).
I64(n) ==
    LET ext == IF n < 0 THEN Limb - 1 ELSE 0
    IN <<ext, ext, (n \div Limb) % Limb, n % Limb>>

\* `hours as i32`: the low 32 bits, whatever the rest holds.
I32TruncateFrom(h) ==
    Ok((IF h[3] >= Limb \div 2 THEN h[3] - Limb ELSE h[3]) * Limb + h[4])

\* i32::try_from(hours).ok()
I32TryFrom(h) ==
    IF \/ (h[1] = 0 /\ h[2] = 0 /\ h[3] < Limb \div 2)
       \/ (h[1] = Limb - 1 /\ h[2] = Limb - 1 /\ h[3] >= Limb \div 2)
    THEN Ok((IF h[3] >= Limb \div 2 THEN h[3] - Limb ELSE h[3]) * Limb + h[4])
    ELSE NoData

\* i32::checked_mul with a positive multiplier: None when the product
\* leaves the 32-bit range.
CheckedMul(a, b) ==
    IF a > I32Max \div b \/ a < (I32Min + b - 1) \div b
    THEN NoData
    ELSE Ok(a * b)

\* chrono::FixedOffset::east_opt: less than a day in either direction.
EastOpt(seconds) ==
    IF -SecondsPerDay < seconds /\ seconds < SecondsPerDay
    THEN Ok(seconds)
    ELSE NoData

\* DateTime::with_timezone followed by the local date: the day the instant
\* falls on at the given offset.
LocalDays(t, seconds) == t.days + ((t.secs + seconds) \div SecondsPerDay)

\* Datelike::year / month / day of a day number (proleptic Gregorian).
CivilFromDays(z) ==
    LET z1 == z + 719468
        era == z1 \div 146097
        doe == z1 - era * 146097
        yoe == (doe - doe \div 1460 + doe \div 36524 - doe \div 146096) \div 365
        doy == doe - (365 * yoe + yoe \div 4 - yoe \div 100)
        mp == (5 * doy + 2) \div 153
        d == doy - ((153 * mp + 2) \div 5) + 1
        m == IF mp < 10 THEN mp + 3 ELSE mp - 9
        y == yoe + era * 400 + (IF m <= 2 THEN 1 ELSE 0)
    IN [year |-> y, month |-> m, day |-> d]

IsLeap(y) == y % 4 = 0 /\ (y % 100 # 0 \/ y % 400 = 0)
DaysInMonth(y, m) ==
    IF m = 2 THEN (IF IsLeap(y) THEN 29 ELSE 28)
    ELSE IF m \in {4, 6, 9, 11} THEN 30 ELSE 31

\* Datetime::from_ymd: None for a date that does not exist.
FromYmd(y, m, d) ==
    IF -9999 <= y /\ y <= 9999 /\ m \in 1..12 /\ d >= 1 /\ d <= DaysInMonth(y, m)
    THEN Ok([year |-> y, month |-> m, day |-> d])
    ELSE NoData

date_convert_ymd(days) ==
    LET c == CivilFromDays(days) IN FromYmd(c.year, c.month, c.day)

\* Variant of the offset computation: the hours are cast, not converted.
OffsetSecondsCast(h) ==
    LET i == I32TruncateFrom(h) IN
    LET s == CheckedMul(i.val, SecondsPerHour) IN
    IF s.tag = "none" THEN NoData ELSE EastOpt(s.val)

\* i32::try_from(hours).ok()?.checked_mul(3600)? and east_opt(seconds)?
OffsetSeconds(h) ==
    LET i == I32TryFrom(h) IN
    IF i.tag = "none" THEN NoData
    ELSE LET s == CheckedMul(i.val, SecondsPerHour) IN
         IF s.tag = "none" THEN NoData ELSE EastOpt(s.val)

\* today(Some(hours)) for the instant t.
today(t, h) ==
    LET off == OffsetSeconds(h) IN
    IF off.tag = "none" THEN NoData
    ELSE date_convert_ymd(LocalDays(t, off.val))

\* The instants a session may have been built at, the offsets the engine
\* may pass, and the offsets of the machine's local time zone.
NowValues ==
    {[days |-> d, secs |-> s] : d \in {19782, 20453, 20763},
                                s \in {0, 3599, 82800, 86399}}
HourOffsets ==
    {I64(n) : n \in {-24, -23, -1, 0, 1, 23, 24, 596523, 596524, -596523,
                     -596524, I32Max, I32Min}}
    \cup {<<0, 0, Limb \div 2, 0>>,
          <<Limb - 1, Limb - 1, Limb \div 2 - 1, Limb - 1>>,
          <<0, 1, 0, 0>>,
          <<0, 1, 0, 1>>,
          <<Limb \div 2 - 1, Limb - 1, Limb - 1, Limb - 1>>,
          <<Limb \div 2, 0, 0, 0>>}
LocalOffsets == {-18000, 0, 3600, 19800}

TodayOthers == <<cellVars, diskVars, rpc, fontVars, storeVars, renderVars>>

\* World::today(Some(hours))
TodayAt(h) ==
    /\ tcalls < MaxTodayCalls
    /\ tcalls' = tcalls + 1
    /\ tlast' = [offset |-> h, local |-> FALSE, ret |-> today(now, h)]
    /\ UNCHANGED <<now, TodayOthers>>

\* World::today(None): the date in the machine's time zone.
TodayLocal(seconds) ==
    /\ tcalls < MaxTodayCalls
    /\ tcalls' = tcalls + 1
    /\ tlast' = [offset |-> I64(0), local |-> TRUE,
                 ret |-> date_convert_ymd(LocalDays(now, seconds))]
    /\ UNCHANGED <<now, TodayOthers>>

\* CompilerBuilder::build has stored chrono::Utc::now() in the compiler.
TodayInit ==
    /\ CellIdle /\ DiskFresh /\ ResolversIdle /\ FontsNew /\ StoreNew /\ RenderIdle
    /\ now \in NowValues
    /\ tcalls = 0
    /\ tlast = NoToday
TodayNext ==
    \/ \E h \in HourOffsets : TodayAt(h)
    \/ \E seconds \in LocalOffsets : TodayLocal(seconds)
TodaySpec == TodayInit /\ [][TodayNext]_vars

TypeOK ==
    /\ phase \in {"new", "failed", "built", "compiling", "done"}
    /\ lock \in Callers \cup {0}
    /\ \A t \in Callers : cpc[t].pc \in {"idle", "wait", "load"}
    /\ \A r \in Resolvers : rpc[r].pc \in {"idle", "request", "unpack", "unpacking"}

(***************************************************************************)
(* Properties.                                                             *)
(***************************************************************************)
\* A caller whose last call went through a cell and has returned.
Returned(t) == cpc[t].pc = "idle" /\ cpc[t].via = "cell"

\* C1: for every cell of the store, load() is invoked at most once, and every
\* get_or_init call on the cell returns the value its first call returned.
C1_LoaderAtMostOnce ==
    /\ \A id \in Ids, k \in Kinds : loads[id][k] <= 1
    /\ \A t \in Callers : Returned(t) => ret[t] = first[cpc[t].id][cpc[t].op]

\* C1 witness: a cell was read several times, by calls that returned, and
\* was loaded once.
C1_Witness ==
    \E t \in Callers :
        /\ Returned(t)
        /\ gets[cpc[t].id][cpc[t].op] >= 2
        /\ loads[cpc[t].id][cpc[t].op] = 1
        /\ ret[t].tag = "ok"

\* The last get_or_init on the stand-alone cell invoked load(), whose result
\* has the fingerprint the cell stored, and the cell held a cached result.
UnchangedReload ==
    /\ ucalls > 0
    /\ ulast.loaded
    /\ Hash128(ulast.result) = ulast.before.fingerprint
    /\ ulast.before.data.tag # "none"

\* C2: a get_or_init that invokes load() and finds the fingerprint of the
\* result equal to the stored one, on a cell with a cached result, returns
\* the cached result, leaves it in the cell and does not invoke transform.
C2_UnchangedFingerprintReuses ==
    UnchangedReload =>
        /\ ulast.ret = ulast.before.data
        /\ ucell.c.data = ulast.before.data
        /\ ~ulast.transformed

\* C2 witness: such a reload on a cell that held a decoded value.
C2_Witness ==
    /\ UnchangedReload
    /\ ulast.before.data.tag = "ok"
    /\ ulast.result.tag = "ok"

\* A cell of the store, when its slot exists.
HasSlot(id) == files[id] # NoSlot
InRound(id, k) ==
    phase \in {"compiling", "done"} /\ gets[id][k] > atStart.gets[id][k]

C4_ErrorsCachedLikeSuccesses ==
    ucalls > 0 =>
        /\ (ulast.loaded /\ ulast.before.data.tag = "err"
              /\ ulast.result = ulast.before.data) =>
                 /\ ulast.ret = ulast.before.data
                 /\ ucell.c.data = ulast.before.data
                 /\ ~ulast.transformed
        /\ (ulast.loaded /\ ulast.result.tag = "err"
              /\ Hash128(ulast.result) # ulast.before.fingerprint) =>
                 /\ ucell.c.data = ulast.result
                 /\ ucell.c.fingerprint = Hash128(ulast.result)
        /\ (ulast.before.data.tag # "none" /\ ucell.c.data # ulast.before.data) =>
                 /\ ulast.loaded
                 /\ Hash128(ulast.result) # ulast.before.fingerprint

\* C4 witness: a cell holding a cached error was reloaded and the load failed
\* with the same error.
C4_Witness ==
    /\ UnchangedReload
    /\ ulast.before.data.tag = "err"
    /\ ulast.result = ulast.before.data
    /\ ucell.c.data = ulast.result

\* C5: the map holds a slot for an identity exactly when LazyFile::new ran
\* for it, and it ran at most once per identity; a caller past the lookup
\* finds the slot in the map.
C5_OneSlotPerIdentity ==
    /\ \A id \in Ids : created[id] <= 1 /\ (HasSlot(id) <=> created[id] = 1)
    /\ \A t \in Callers : cpc[t].pc = "load" => HasSlot(cpc[t].id)

\* C5 witness: two callers requested the same unseen identity at the same
\* time; the first inserted the slot, the second waits for the lock.
C5_Witness ==
    /\ buildInput.input.kind = "content"
    /\ cpc[1].pc = "load" /\ cpc[2].pc = "wait"
    /\ cpc[1].id = cpc[2].id
    /\ ncalls[1] = 1 /\ ncalls[2] = 1
    /\ created[cpc[1].id] = 1

\* C6 as stated: the store mutex is released before the load step runs.
C6_LockReleasedBeforeLoad ==
    \A t \in Callers : cpc[t].pc = "load" => lock # t

\* C6 amended: the store mutex is held across the load step, so while one
\* caller loads, no other caller is past the lookup of any identity.
C6_LockHeldAcrossLoad ==
    \A t \in Callers :
        cpc[t].pc = "load" =>
            /\ lock = t
            /\ \A u \in Callers \ {t} : cpc[u].pc # "load"

\* C6 witness: one caller runs the load step while another caller waits to
\* look up a different identity.
C6_Witness ==
    /\ cpc[1].pc = "load" /\ lock = 1
    /\ cpc[2].pc = "wait"
    /\ cpc[1].id # cpc[2].id

\* C7: a source call for the in-memory identity returns the pinned entry at
\* once and changes neither the map, nor a cell, nor the lock, nor the disk.
C7_InMemorySourceTouchesNothing ==
    [][\A t \in Callers :
          (ncalls'[t] = ncalls[t] + 1 /\ cpc'[t].op = "source"
             /\ cpc'[t].id = InMemoryId) =>
              /\ cpc'[t].pc = "idle"
              /\ ret'[t] = Ok(compiler.val.entry)
              /\ UNCHANGED <<files, created, loads, gets, lock, disk, httpLog,
                             unpacks, compiler>>]_vars

\* C7 witness: a compiler built from a Content input answered a source call
\* for the in-memory identity.
C7_Witness ==
    \E t \in Callers :
        /\ buildInput.input.kind = "content"
        /\ phase \in {"compiling", "done"}
        /\ cpc[t].via = "mem" /\ cpc[t].id = InMemoryId
        /\ ret[t] = Ok(compiler.val.entry)
        /\ files = EmptyFiles

\* A File input whose entry or root contains the reserved marker.
MarkedFileInput(input) ==
    /\ input.kind = "file"
    /\ \/ Contains(input.entry, RESERVED_IN_MEMORY_IDENTIFIER)
       \/ Contains(input.root.text, RESERVED_IN_MEMORY_IDENTIFIER)

\* C8: build() on a File input whose entry or root contains the reserved
\* marker fails with ForbiddenFilenamePathText after the is_forbidden check
\* alone, and yields no compiler.
C8_ForbiddenRejectedFirst ==
    (phase # "new" /\ MarkedFileInput(buildInput.input)) =>
        /\ phase = "failed"
        /\ buildError.kind = "ForbiddenFilenamePathText"
        /\ buildTrace = <<"is_forbidden">>
        /\ compiler = NoData

\* C9: a prepare_package call for a spec whose subpath exists under the data
\* directory returns that path in the same step, requests no URL and leaves
\* the disk as it is, whatever the cache directory holds.
C9_InstalledWins ==
    [][\A r \in Resolvers :
          (rpc[r].pc = "idle" /\ rpc'[r].n = rpc[r].n + 1
             /\ Exists(disk, DataPath(rpc'[r].spec))) =>
              /\ rpc'[r].pc = "idle"
              /\ rpc'[r].ret = Ok(DataPath(rpc'[r].spec))
              /\ UNCHANGED <<httpLog, disk, unpacks>>]_vars

\* C9 witness: a resolution returned the data-directory path of a package
\* that also exists in the cache directory.
C9_Witness ==
    \E r \in Resolvers :
        /\ rpc[r].pc = "idle" /\ rpc[r].n > 0
        /\ rpc[r].ret = Ok(DataPath(rpc[r].spec))
        /\ Exists(disk, CachePath(rpc[r].spec))

\* C10: a prepare_package call for a spec outside the "preview" namespace
\* that exists in neither directory returns NotFound in the same step and
\* requests no URL.
C10_LocalNamespaceNeverFetched ==
    [][\A r \in Resolvers :
          (rpc[r].pc = "idle" /\ rpc'[r].n = rpc[r].n + 1
             /\ rpc'[r].spec.namespace # "preview"
             /\ ~Exists(disk, DataPath(rpc'[r].spec))
             /\ ~Exists(disk, CachePath(rpc'[r].spec))) =>
              /\ rpc'[r].pc = "idle"
              /\ rpc'[r].ret = Err("PkgNotFound")
              /\ UNCHANGED <<httpLog, disk, unpacks>>]_vars

\* C10 witness: NotFound was returned for a package of another namespace
\* that is in neither directory although both directories are known.
C10_Witness ==
    \E r \in Resolvers :
        /\ rpc[r].pc = "idle" /\ rpc[r].n > 0
        /\ rpc[r].spec = LocalSpec
        /\ rpc[r].ret = Err("PkgNotFound")
        /\ userDirs.data /\ userDirs.cache
        /\ ~Exists(disk, DataPath(LocalSpec))
        /\ ~Exists(disk, CachePath(LocalSpec))

\* A resolver other than r is inside download_package for the same package.
OtherDownloading(r, spec) ==
    \E q \in Resolvers \ {r} :
        rpc[q].pc \in {"request", "unpack", "unpacking"} /\ rpc[q].spec = spec

\* C11: download_package maps each failure to one error: a 404 response to
\* NotFound, every other failed request (another status, a transport
\* failure, a failed read of the body) to NetworkFailed, and a failed unpack
\* to MalformedArchive.
C11_DownloadErrorMapping ==
    \A r \in Resolvers :
        (rpc[r].pc = "idle" /\ rpc[r].h # "") =>
            /\ (rpc[r].h = "404") => (rpc[r].ret = Err("PkgNotFound"))
            /\ (rpc[r].h \in {"status", "transport", "bodyfail"}) =>
                   (rpc[r].ret = Err("NetworkFailed"))
            /\ (rpc[r].h = "ok") =>
                   /\ rpc[r].u \in UnpackOutcomes
                   /\ (rpc[r].u = "fail") => (rpc[r].ret = Err("MalformedArchive"))
                   /\ (rpc[r].u = "ok") =>
                          (rpc[r].ret \in {Ok(CachePath(rpc[r].spec)), Err("PkgNotFound")})

\* C11 witness: one resolution ended on a 404 response and another on an
\* archive that could not be unpacked.
C11_Witness ==
    \E r, q \in Resolvers :
        /\ rpc[r].pc = "idle" /\ rpc[r].h = "404" /\ rpc[r].ret = Err("PkgNotFound")
        /\ rpc[q].pc = "idle" /\ rpc[q].h = "ok" /\ rpc[q].u = "fail"
        /\ rpc[q].ret = Err("MalformedArchive")

\* C12 as stated: when prepare_package returns an error (no other resolution
\* of that package being under way), no partially written directory of the
\* package is left, and after MalformedArchive the cache-directory subpath
\* does not exist.
C12_NoPartialDirectoryAfterError ==
    [][\A r \in Resolvers :
          (rpc[r].pc # "idle" /\ rpc'[r].pc = "idle" /\ rpc'[r].ret.tag = "err"
             /\ ~OtherDownloading(r, rpc[r].spec)) =>
              /\ disk'[CachePath(rpc[r].spec)] # "partial"
              /\ (rpc'[r].ret = Err("MalformedArchive")) =>
                     ~Exists(disk', CachePath(rpc[r].spec))]_vars

\* C13 as stated: once a resolution of a spec has returned Ok(dir), a
\* resolution of the same spec that starts afterwards returns Ok(dir) in the
\* same step and requests no URL.
C13_SecondResolutionIsCacheHit ==
    [][\A r, q \in Resolvers :
          (rpc[r].pc = "idle" /\ rpc'[r].n = rpc[r].n + 1
             /\ rpc[q].pc = "idle" /\ rpc[q].ret.tag = "ok"
             /\ rpc[q].spec = rpc'[r].spec) =>
              /\ rpc'[r].pc = "idle"
              /\ rpc'[r].ret = rpc[q].ret
              /\ httpLog' = httpLog]_vars

(***************************************************************************)
(* The font registry: C14 .. C20 (FontSpec).                               *)
(***************************************************************************)
\* The registry an operation works on (get_mut_or_init), and after the step.
Registry == GetMutOrInit(fontCache, embedFeature)
RegistryAfter == fontCache'.val
Warm(slot) == slot.font.tag = "font"
FontStep(op) == fop'.n = fop.n + 1 /\ fop'.op = op

\* C14: insert_one / insert_many / insert_dir / insert_dirs only append:
\* every record and slot that existed keeps its index and its content, and
\* what is added are cold non-embedded slots at the end, one per record.
C14_InsertOnlyAppends ==
    [][FontStep("insert") =>
          LET old == Registry
              new == RegistryAfter
          IN /\ Len(new.book) >= Len(old.book)
             /\ Len(new.fonts) - Len(old.fonts) = Len(new.book) - Len(old.book)
             /\ \A i \in 1..Len(old.book) : new.book[i] = old.book[i]
             /\ \A i \in 1..Len(old.fonts) : new.fonts[i] = old.fonts[i]
             /\ \A i \in (Len(old.fonts) + 1)..Len(new.fonts) :
                   ~Warm(new.fonts[i]) /\ ~new.fonts[i].embedded]_vars

\* C14 witness: the same face was inserted when it was already registered,
\* and the registry holds it in two slots, the first one warm.
C14_Witness ==
    /\ fop.op = "insert"
    /\ fontCache.tag = "ok"
    /\ \E i, j \in 1..Len(fontCache.val.fonts) :
          /\ i < j
          /\ fontCache.val.book[i] = fontCache.val.book[j]
          /\ fontCache.val.fonts[i].path = fontCache.val.fonts[j].path
          /\ fontCache.val.fonts[i].index = fontCache.val.fonts[j].index
          /\ Warm(fontCache.val.fonts[i])
          /\ ~Warm(fontCache.val.fonts[j])

\* C15: update_cache(font) changes a slot only if that slot held no decoded
\* value, and then to the given font; a warm slot keeps its decoded value,
\* and nothing else of the registry changes.
C15_FirstWriterWins ==
    [][FontStep("update_cache") =>
          LET old == Registry
              new == RegistryAfter
          IN /\ new.book = old.book
             /\ Len(new.fonts) = Len(old.fonts)
             /\ \A i \in 1..Len(old.fonts) :
                   \/ new.fonts[i] = old.fonts[i]
                   \/ /\ ~Warm(old.fonts[i])
                      /\ new.fonts[i] = [old.fonts[i] EXCEPT !.font = fop'.font]]_vars

\* C15 witness: update_cache was given a font whose slot is warm with a
\* different decoded font of the same family and variant.
C15_Witness ==
    /\ fop.op = "update_cache"
    /\ fontCache.tag = "ok"
    /\ \E i \in 1..Len(fontCache.val.fonts) :
          /\ i = BookSelect(fontCache.val.book, ToLowercase(Family(fop.font.info)),
                            Variant(fop.font.info))
          /\ Warm(fontCache.val.fonts[i])
          /\ fontCache.val.fonts[i].font # fop.font
          /\ fontCache.val.fonts[i].font.info = fop.font.info

\* The slots of the registry whose record has the family and the variant of
\* the font.
Matching(cache, font) ==
    {i \in 1..Len(cache.book) :
        /\ ToLowercase(Family(cache.book[i])) = ToLowercase(Family(font.info))
        /\ Variant(cache.book[i]) = Variant(font.info)}
Least(S) == CHOOSE i \in S : \A j \in S : i <= j

\* C16 as stated: when several slots match the font, update_cache warms the
\* first matching slot that is still cold, and no other slot.
C16_WarmsFirstColdMatch ==
    [][FontStep("update_cache") =>
          LET old == Registry
              new == RegistryAfter
              cold == {i \in Matching(old, fop'.font) : ~Warm(old.fonts[i])}
          IN (Cardinality(Matching(old, fop'.font)) > 1 /\ cold # {}) =>
                 /\ new.fonts[Least(cold)].font = fop'.font
                 /\ \A i \in 1..Len(old.fonts) :
                       (i # Least(cold)) => (new.fonts[i] = old.fonts[i])]_vars

\* C16 amended: when several slots match the font, update_cache looks at the
\* first matching slot only: it warms that slot if it is cold, and warms
\* nothing if it is warm, also when a later matching slot is cold.
C16_WarmsFirstMatchOnly ==
    [][FontStep("update_cache") =>
          LET old == Registry
              new == RegistryAfter
              match == Matching(old, fop'.font)
          IN (Cardinality(match) > 1) =>
                 /\ \A i \in 1..Len(old.fonts) :
                       (i # Least(match)) => (new.fonts[i] = old.fonts[i])
                 /\ new.fonts[Least(match)].font =
                        IF Warm(old.fonts[Least(match)])
                        THEN old.fonts[Least(match)].font ELSE fop'.font]_vars

\* C16 witness: update_cache ran while the first matching slot was warm and
\* a later matching slot was cold, and that later slot is still cold.
C16_Witness ==
    /\ fop.op = "update_cache"
    /\ fontCache.tag = "ok"
    /\ LET match == Matching(fontCache.val, fop.font) IN
       /\ Cardinality(match) > 1
       /\ fontCache.val.fonts[Least(match)].font # fop.font
       /\ Warm(fontCache.val.fonts[Least(match)])
       /\ \E j \in match : ~Warm(fontCache.val.fonts[j])

RECURSIVE TotalDecoded(_)
TotalDecoded(fonts) ==
    IF fonts = << >> THEN 0
    ELSE (IF Warm(Head(fonts)) THEN DataLen(Head(fonts).font) ELSE 0)
         + TotalDecoded(Tail(fonts))
RECURSIVE NonEmbeddedDecoded(_)
NonEmbeddedDecoded(fonts) ==
    IF fonts = << >> THEN 0
    ELSE (IF Warm(Head(fonts)) /\ ~Head(fonts).embedded
          THEN DataLen(Head(fonts).font) ELSE 0)
         + NonEmbeddedDecoded(Tail(fonts))

\* C18 as stated: cache_size(false) returns the bytes of the decoded
\* non-embedded fonts, cache_size(true) the bytes of all decoded fonts, so
\* that cache_size(true) is never less than cache_size(false).
C18_CacheSizeTrueIsTotal ==
    [][FontStep("cache_size") =>
          /\ fop'.size = IF fop'.flag THEN TotalDecoded(RegistryAfter.fonts)
                         ELSE NonEmbeddedDecoded(RegistryAfter.fonts)
          /\ fop'.flag => (fop'.size >= NonEmbeddedDecoded(RegistryAfter.fonts))]_vars

\* Embedded slots exist in the registry and none of them holds a decoded font.
EmbeddedLost ==
    /\ fontCache.tag = "ok"
    /\ \E i \in 1..Len(fontCache.val.fonts) : fontCache.val.fonts[i].embedded
    /\ \A i \in 1..Len(fontCache.val.fonts) :
          fontCache.val.fonts[i].embedded => ~Warm(fontCache.val.fonts[i])

\* A session's clone of a cold embedded slot never comes to hold a font.
ColdEmbeddedCloneStaysCold ==
    \A s \in Sessions :
        \A i \in 1..Len(sessions[s].fonts) :
            (sessions[s].fonts[i].embedded /\ ~Warm(sessions[s].fonts[i])) =>
                (i \in 1..Len(sessions'[s].fonts) /\ ~Warm(sessions'[s].fonts[i]))

C20_SnapshotIsExclusive ==
    [][\A s \in Sessions :
          sessions[s].live =>
              LET v == SessionView(sessions[s], fontCache)
                  w == SessionView(sessions'[s], fontCache')
              IN /\ (fop' # fop) => (w = v)
                 /\ w.book = sessions[s].book0
                 /\ Len(w.fonts) = Len(sessions[s].slots0)
                 /\ \A i \in 1..Len(sessions[s].slots0) :
                       /\ w.fonts[i].path = sessions[s].slots0[i].path
                       /\ w.fonts[i].index = sessions[s].slots0[i].index
                       /\ w.fonts[i].embedded = sessions[s].slots0[i].embedded
                       /\ (v.fonts[i].font.tag # "unset") => (w.fonts[i] = v.fonts[i])]_vars

\* C20 witness: a session holds a font it decoded itself and the embedded
\* font it was handed, while the registry has since grown and its embedded
\* slot has been emptied.
C20_Witness ==
    /\ fontCache.tag = "ok"
    /\ \E s \in Sessions :
          /\ sessions[s].live
          /\ Len(fontCache.val.book) > Len(sessions[s].book0)
          /\ \E i, j \in 1..Len(sessions[s].fonts) :
                /\ sessions[s].slots0[i].cold /\ Warm(sessions[s].fonts[i])
                /\ sessions[s].slots0[j].embedded /\ Warm(sessions[s].fonts[j])
                /\ ~Warm(fontCache.val.fonts[j])


(***************************************************************************)
(* Export.                                                                 *)
(***************************************************************************)
\* compile_png / compile_svg has returned after encoding the pages.
Rendered == rphase = "returned" /\ rcfg.fmt \in Paged /\ rcfg.n > 0
\* The pages whose encoding failed.
Failed == {i \in DOMAIN wpc : wpc[i].res.tag = "err"}

\* C21: in the parallel configuration, whatever the order in which the page
\* bodies finish, slot i of the buffer never holds anything but the bytes of
\* page i, and a returned output vector holds the bytes of page i at index i.
C21_PageOrderKept ==
    (rcfg.parallel /\ rcfg.fmt \in Paged) =>
        /\ \A i \in DOMAIN buffer : buffer[i] \in {<< >>, PageBytes(i)}
        /\ (Rendered /\ routput.output.tag = "ok") =>
               /\ Len(routput.output.val) = rcfg.n
               /\ \A i \in 1..rcfg.n : routput.output.val[i] = PageBytes(i)

\* C21 witness: a parallel export returned its pages although page 2 was
\* stored before page 1.
C21_Witness ==
    /\ Rendered /\ rcfg.parallel /\ rcfg.n >= 2
    /\ routput.output.tag = "ok"
    /\ wpc[2].rank < wpc[1].rank

\* C22: when compile_png has encoded n pages and k >= 1 of them failed, the
\* returned output is None and the returned errors are exactly k encoding
\* diagnostics.
C22_EncodingFailuresCounted ==
    (Rendered /\ rcfg.fmt = "png" /\ Failed # {}) =>
        /\ routput.output.tag = "none"
        /\ Len(routput.errors) = Cardinality(Failed)
        /\ \A k \in DOMAIN routput.errors : routput.errors[k] \in EncodingErrors

\* C22 witness: compile_png returned after two pages failed and one did not.
C22_Witness ==
    /\ Rendered /\ rcfg.fmt = "png"
    /\ Cardinality(Failed) = 2
    /\ \E i \in DOMAIN wpc : wpc[i].res.tag = "ok"

\* Every page was processed exactly once and left either its bytes in its
\* slot or one diagnostic.
AllPagesProcessedOnce ==
    /\ \A i \in 1..rcfg.n :
          /\ wpc[i].runs = 1 /\ wpc[i].pc = "done"
          /\ (wpc[i].res.tag = "ok") => (buffer[i] = wpc[i].res.val)
          /\ (wpc[i].res.tag = "err") => (buffer[i] = << >>)
    /\ Len(rerrors) = Cardinality(Failed)

\* C23: a page that fails does not stop the other pages: in the sequential
\* and in the parallel configuration, an export that has its document
\* eventually returns, no page is processed twice, and at the return every
\* page has been processed exactly once and has either its bytes in its slot
\* or one diagnostic.
C23_EveryPageProcessedOnce ==
    /\ [](\A i \in DOMAIN wpc : wpc[i].runs <= 1)
    /\ [](Rendered => AllPagesProcessedOnce)
    /\ ((rphase = "rendering") ~> (rphase = "returned"))

\* C23 witness: a sequential export returned after its first page failed and
\* a later page was encoded and stored.
C23_Witness ==
    /\ Rendered /\ ~rcfg.parallel /\ rcfg.n >= 2
    /\ wpc[1].res.tag = "err"
    /\ \E i \in 2..rcfg.n : wpc[i].res.tag = "ok" /\ buffer[i] = PageBytes(i)

\* C24: for every result of compile_pdf, compile_png, compile_svg and
\* compile_html, non-empty errors imply that output is None.
C24_ErrorsImplyNoOutput ==
    (rphase = "returned" /\ Len(routput.errors) > 0) => (routput.output.tag = "none")

\* C24 witness: compile_pdf returned errors although typst::compile gave a
\* document.
C24_Witness ==
    /\ rphase = "returned" /\ rcfg.fmt = "pdf" /\ rcfg.n > 0
    /\ Len(routput.errors) > 0

\* C30: during parallel rendering the body for page i writes only slot i,
\* every slot is written at most once, and the buffer keeps the length of
\* the page count.
C30_WorkerWritesOwnSlotOnce ==
    (rcfg.parallel /\ rcfg.fmt \in Paged /\ rphase # "idle") =>
        /\ Len(buffer) = rcfg.n
        /\ \A s \in DOMAIN rwrites : rwrites[s] \in {<< >>, <<s>>}
        /\ \A i \in DOMAIN wpc :
              (wpc[i].pc = "done" /\ wpc[i].res.tag = "ok") => (rwrites[i] = <<i>>)

\* C30 witness: the bodies of a three-page parallel export have all written,
\* the last page first.
C30_Witness ==
    /\ rcfg.parallel /\ rcfg.fmt \in Paged /\ rcfg.n = 3 /\ rphase = "rendering"
    /\ \A s \in 1..3 : rwrites[s] = <<s>>
    /\ wpc[3].rank = 1


\* C25: in build() with a File input, when canonicalize() of the root (or,
\* the root being resolved, of the entry path) fails with kind NotFound the
\* error is InputNotFound with that path, and when it fails with any other
\* kind the error is the generic Io error.
C25_CanonicalizeErrorMapping ==
    (phase # "new" /\ buildInput.input.kind = "file") =>
        LET in == buildInput.input
            c == buildInput.canon
        IN
        /\ (c.root = "notfound") =>
               (buildError = WrapperError("InputNotFound", in.root.text))
        /\ (c.root \notin {"", "ok", "notfound"}) => (buildError.kind = "Io")
        /\ (c.entry = "notfound") =>
               (buildError = WrapperError("InputNotFound", EntryPath(in)))
        /\ (c.entry \notin {"", "ok", "notfound"}) => (buildError.kind = "Io")

\* C25 witness: the root resolved and the entry path failed with a kind
\* other than NotFound.
C25_Witness ==
    /\ phase = "failed" /\ buildInput.input.kind = "file"
    /\ buildInput.canon.root = "ok" /\ buildInput.canon.entry = "ioerr"
    /\ buildError.kind = "Io"


\* C26: no registry operation returns UninitializedFontCache: every public
\* operation that finds FONT_CACHE uninitialized initializes it first (the
\* initialization cannot fail), so after any operation other than a failed
\* init the registry exists.
C26_NeverUninitialized ==
    /\ fop.res # "UninitializedFontCache"
    /\ (fop.n > 0 /\ fop.op # "init") => (fontCache.tag = "ok")
    /\ \A s \in Sessions : sessions[s].live => (fontCache.tag = "ok")

\* C26 witness: the first operation of the process was cache_size; it found
\* no registry, made the default one and returned Ok.
C26_Witness ==
    /\ fop.n = 1 /\ fop.op = "cache_size" /\ fop.res = "ok"
    /\ \A s \in Sessions : ~sessions[s].live
    /\ fontCache.tag = "ok"


\* C27: whenever get_or_init invokes transform, the previous-value argument
\* is the value the cell had cached if that was a successful one and is
\* absent if the cell had cached an error (or nothing), and the result of
\* transform is the new cached value and the value returned.
C27_TransformGetsLastSuccess ==
    (ucalls > 0 /\ ulast.transformed) =>
        /\ (ulast.before.data.tag = "ok") => (ulast.prev = ulast.before.data)
        /\ (ulast.before.data.tag # "ok") => (ulast.prev.tag = "none")
        /\ ulast.ret = Transform(ucell.kind, UnitId, ulast.result.val, ulast.prev)
        /\ ucell.c.data = ulast.ret

\* C27 witness: the cell had cached an error; the next get_or_init read the
\* file, called transform without a previous value and cached its result.
C27_Witness ==
    /\ ucalls > 0 /\ ulast.transformed
    /\ ulast.before.data.tag = "err"
    /\ ulast.prev.tag = "none"
    /\ ucell.c.data.tag = "ok"


\* The callers that are inside the closure given to Compiler::slot.
InSlot == {t \in Callers : cpc[t].pc = "load"}

\* C28: the accessor of a slot is used for one operation while the store
\* lock is held: at most one caller at a time is inside a source or bytes
\* operation, it holds the lock, and until it returns nobody else changes a
\* slot; its return completes exactly that one operation and frees the lock.
C28_OneOperationUnderLock ==
    [][/\ Cardinality(InSlot') <= 1
       /\ \A t \in InSlot :
             /\ lock = t
             /\ (files' # files \/ gets' # gets \/ loads' # loads) =>
                   /\ cpc'[t].pc = "idle"
                   /\ lock' = 0
                   /\ gets' = [gets EXCEPT ![cpc[t].id][cpc[t].op] = @ + 1]]_vars

\* C28 witness: caller 2 is inside an operation on a slot and holds the
\* lock, while caller 1, which has completed an operation before, waits for
\* the slot of the same identity.
C28_Witness ==
    /\ cpc[2].pc = "load" /\ lock = 2
    /\ cpc[1].pc = "wait" /\ ncalls[1] = 2
    /\ cpc[1].id = cpc[2].id


\* C29: source(id) answers with the pinned entry only when id is the
\* in-memory identity itself; a source call for any other identity goes to
\* that identity's slot.
C29_PinnedEntryOnlyForInMemoryId ==
    \A t \in Callers :
        (cpc[t].op = "source" /\ cpc[t].id # InMemoryId) => (cpc[t].via # "mem")


\* The number of times diagnostic e occurs in errors.
Count(errors, e) == Cardinality({k \in DOMAIN errors : errors[k] = e})
\* Two collections of diagnostics that differ at most in their order.
SameDiagnostics(a, b) ==
    /\ Len(a) = Len(b)
    /\ \A e \in EncodingErrors : Count(a, e) = Count(b, e)
\* The encode outcome of every page of the export.
PageOutcomes == [i \in DOMAIN wpc |-> wpc[i].res]

\* C31: for the same document and the same per-page encode outcomes, what
\* compile_png returns in the parallel configuration is what the sequential
\* block returns: the same output (None, or the same bytes in the same
\* order) and the same diagnostics up to their order.
C31_ParallelEqualsSequential ==
    (Rendered /\ rcfg.fmt = "png" /\ rcfg.parallel) =>
        LET seq == SequentialPng(PageOutcomes) IN
        /\ routput.output.tag = seq.output.tag
        /\ (routput.output.tag = "ok") => (routput.output.val = seq.output.val)
        /\ SameDiagnostics(routput.errors, seq.errors)

\* C31 witness: a parallel compile_png returned two different diagnostics in
\* another order than the sequential block gives them.
C31_Witness ==
    /\ Rendered /\ rcfg.fmt = "png" /\ rcfg.parallel
    /\ Len(routput.errors) = 2
    /\ routput.errors # SequentialPng(PageOutcomes).errors


\* Session s is handed its snapshot in this step.
Snapshot(s) == ~sessions[s].live /\ sessions'[s].live

\* C32: a global slot that holds a decoded font keeps it in the same slot
\* until clear_cache or init; every snapshot taken by get_book_and_fonts
\* holds, slot by slot, the decoded fonts of the registry, and a session
\* asking for such a slot gets that font and leaves the slot as it is;
\* decoding inside a session's snapshot changes nothing of the registry.
C32_WarmingCarriesOver ==
    [][/\ (fontCache.tag = "ok" /\ ~FontStep("clear_cache") /\ ~FontStep("init")) =>
             \A i \in 1..Len(fontCache.val.fonts) :
                 Warm(fontCache.val.fonts[i]) =>
                     /\ i \in 1..Len(RegistryAfter.fonts)
                     /\ RegistryAfter.fonts[i] = fontCache.val.fonts[i]
       /\ \A s \in Sessions :
             /\ Snapshot(s) =>
                   /\ Len(sessions'[s].fonts) = Len(RegistryAfter.fonts)
                   /\ \A i \in 1..Len(RegistryAfter.fonts) :
                         Warm(RegistryAfter.fonts[i]) =>
                             (sessions'[s].fonts[i] = RegistryAfter.fonts[i])
             /\ (sessions[s].live /\ sessions'[s] # sessions[s]) =>
                   /\ fontCache' = fontCache
                   /\ \A i \in 1..Len(sessions[s].fonts) :
                         Warm(sessions[s].fonts[i]) =>
                             (sessions'[s].fonts[i] = sessions[s].fonts[i])]_vars

\* C32 witness: the second session was handed a slot that is not embedded
\* and already held a decoded font (update_cache had installed it), and the
\* session still holds it.
C32_Witness ==
    /\ sessions[2].live
    /\ fop.op = "update_cache"
    /\ \E i \in 1..Len(sessions[2].fonts) :
          /\ ~sessions[2].slots0[i].embedded /\ ~sessions[2].slots0[i].cold
          /\ Warm(sessions[2].fonts[i])


\* C33: a package is materialized at most once: two resolvers never unpack
\* the archive of the same package into its cache directory at the same
\* time.
C33_AtMostOneMaterialization ==
    \A r, q \in Resolvers :
        (r # q /\ rpc[r].pc = "unpacking" /\ rpc[q].pc = "unpacking") =>
            (rpc[r].spec # rpc[q].spec)


\* prepare_package returns to resolver r in this step.
PkgReturns(r) ==
    /\ rpc'[r].pc = "idle"
    /\ \/ rpc[r].pc # "idle"
       \/ rpc'[r].n = rpc[r].n + 1

\* C34: prepare_package returns Ok(dir) only for a directory whose unpacking
\* is complete, also while another resolver is unpacking the same package
\* (or is about to delete it after a failed unpack).
C34_OkOnlyForCompleteDirectory ==
    [][\A r \in Resolvers :
          (PkgReturns(r) /\ rpc'[r].ret.tag = "ok"
             /\ \E q \in Resolvers \ {r} :
                   rpc[q].pc = "unpacking" /\ rpc[q].spec = rpc'[r].spec) =>
              (disk'[rpc'[r].ret.val] = "complete")]_vars


\* The errors of build() that come from its input.
ConfigurationErrors ==
    {"ForbiddenFilenamePathText", "InputNotFound", "InputOutsideRoot", "File"}

\* C35: when build() fails with the forbidden-name, InputNotFound,
\* InputOutsideRoot or entry-read error, no compiler is produced and the
\* global font registry is as it was: it is neither initialized nor given
\* the builder's font paths.
C35_ConfigurationErrorTouchesNothing ==
    [][(phase = "new" /\ phase' # "new"
          /\ buildError'.kind \in ConfigurationErrors) =>
            /\ phase' = "failed"
            /\ compiler' = NoData
            /\ fontCache' = fontCache]_vars

\* C35 witness: a builder that was given font paths failed with
\* InputOutsideRoot while the registry was uninitialized, and it still is.
C35_Witness ==
    /\ phase = "failed" /\ buildError.kind = "InputOutsideRoot"
    /\ buildInput.font_paths = <<"A", "B">>
    /\ fontCache.tag = "none"


\* The book and the slots are parallel: as many records as slots, and record
\* i is the FontInfo of the face slot i points to (of an embedded font for
\* an embedded slot).
Parallel(book, fonts) ==
    /\ Len(book) = Len(fonts)
    /\ \A i \in 1..Len(fonts) :
          IF fonts[i].embedded
          THEN \E k \in 1..Len(EmbeddedFonts(TRUE).book) :
                  /\ book[i] = EmbeddedFonts(TRUE).book[k]
                  /\ fonts[i].index = EmbeddedFonts(TRUE).fonts[k].index
          ELSE \E k \in 1..Len(FacesOf(fonts[i].path)) :
                  /\ FacesOf(fonts[i].path)[k].index = fonts[i].index
                  /\ FacesOf(fonts[i].path)[k].info = book[i]

\* C36: in every state of the registry and in every snapshot handed to a
\* session, the book and the slot vector have the same length and record i
\* describes slot i, also after an insert that failed part-way.
C36_BookAndSlotsParallel ==
    /\ (fontCache.tag = "ok") => Parallel(fontCache.val.book, fontCache.val.fonts)
    /\ \A s \in Sessions :
          sessions[s].live => Parallel(sessions[s].book, sessions[s].fonts)

\* C36 witness: an insert failed with FontFaceLoadingError after it had
\* registered a face of the same file, and a session was handed the result.
C36_Witness ==
    /\ fop.op = "insert" /\ fop.res = "FontFaceLoadingError"
    /\ fontCache.tag = "ok"
    /\ \E i \in 1..Len(fontCache.val.fonts) : fontCache.val.fonts[i].path = "broken"
    /\ \E s \in Sessions :
          /\ sessions[s].live
          /\ \E i \in 1..Len(sessions[s].fonts) : sessions[s].fonts[i].path = "broken"


\* The cell of a slot that an operation of kind k does not work on.
OtherKind(k) == IF k = "source" THEN "file" ELSE "source"

\* C37: the two cells of a slot are independent: a step that changes an
\* existing slot is the return of one source() or file() call on it, and it
\* leaves the data, the fingerprint and the accessed flag of the other cell
\* as they were; every cell is loaded at most once.
C37_CellsIndependent ==
    [][/\ \A id \in Ids :
             (HasSlot(id) /\ files'[id] # files[id]) =>
                 \E t \in Callers :
                     /\ cpc[t].pc = "load" /\ cpc[t].id = id /\ cpc'[t].pc = "idle"
                     /\ CellOf(files'[id], OtherKind(cpc[t].op)) =
                            CellOf(files[id], OtherKind(cpc[t].op))
                     /\ loads'[id][OtherKind(cpc[t].op)] = loads[id][OtherKind(cpc[t].op)]
       /\ \A id \in Ids, k \in Kinds : loads'[id][k] <= 1]_vars

\* C37 witness: one identity was imported and read: both cells of its slot
\* hold a value, each loaded once.
C37_Witness ==
    \E id \in Ids :
        /\ HasSlot(id)
        /\ files[id].source.data.tag = "ok" /\ files[id].file.data.tag = "ok"
        /\ loads[id]["source"] = 1 /\ loads[id]["file"] = 1


\* C38: when load() returns an error whose fingerprint differs from the
\* stored one, transform is not invoked and the error is what the cell
\* caches and returns, whatever it had cached; a successful load that finds
\* an error cached invokes transform without a previous value, and the
\* source it builds is a new one (no edit applied to an older one).
C38_ErrorDropsCachedValue ==
    /\ (ucalls > 0 /\ ulast.loaded /\ ulast.result.tag = "err"
           /\ Hash128(ulast.result) # ulast.before.fingerprint) =>
          /\ ~ulast.transformed
          /\ ucell.c.data = ulast.result
          /\ ulast.ret = ulast.result
    /\ (ucalls > 0 /\ ulast.transformed /\ ulast.before.data.tag = "err") =>
          /\ ulast.prev.tag = "none"
          /\ (ucell.kind = "source" /\ ulast.ret.tag = "ok") =>
                (ulast.ret.val.edits = 0)

\* C38 witness: a cell that had cached a decoded value was asked again, the
\* load failed with a new fingerprint, and the cell now caches the error.
C38_Witness ==
    /\ ucalls > 0 /\ ulast.loaded
    /\ ulast.before.data.tag = "ok"
    /\ ulast.result.tag = "err"
    /\ ucell.c.data.tag = "err"


\* The offsets of whole hours that chrono accepts and the i64 values that
\* stand for them.
ValidHours == -23..23
HoursOf(h) == CHOOSE n \in ValidHours : I64(n) = h

\* C39: today(Some(h)) computes within 32 bits and returns None unless h is
\* a whole number of hours that fits an i32, whose seconds fit an i32 and
\* make a fixed offset (-23..23 hours); for those it returns the date of the
\* session's `now` moved by h hours; and no call changes `now`.
C39_TodayAtOffset ==
    /\ [](\A h \in HourOffsets :
            LET i == I32TryFrom(h) IN
            i.tag = "ok" =>
              LET m == CheckedMul(i.val, SecondsPerHour) IN
              /\ I32Min <= i.val /\ i.val <= I32Max
              /\ m.tag = "ok" => (I32Min <= m.val /\ m.val <= I32Max))
    /\ []((tcalls > 0 /\ ~tlast.local) =>
            IF \E n \in ValidHours : I64(n) = tlast.offset
            THEN LET total == now.days * 24 + (now.secs \div SecondsPerHour)
                              + HoursOf(tlast.offset)
                     c == CivilFromDays(total \div 24)
                 IN tlast.ret = Ok(c)
            ELSE tlast.ret = NoData)
    /\ [][now' = now]_vars

\* C39 witness: two calls of one session, the last at +1 hour in the last
\* hour of 2025-12-31 UTC, returned 2026-01-01.
C39_Witness ==
    /\ tcalls = 2
    /\ ~tlast.local
    /\ now = [days |-> 20453, secs |-> 86399]
    /\ tlast.offset = I64(1)
    /\ tlast.ret = Ok([year |-> 2026, month |-> 1, day |-> 1])


\* C40: update_cache never panics on the unwrap of set(): in every reachable
\* registry take() leaves the selected cell empty, so set() returns Ok for
\* every slot and every font, and a slot that held a value before the call
\* holds the same value after it.
C40_SetAfterTakeSucceeds ==
    /\ [](fop.op = "update_cache" => fop.res # "panic")
    /\ [](fontCache.tag = "ok" =>
            \A i \in 1..Len(fontCache.val.fonts), info \in {"a", "b"} :
               LET cell == fontCache.val.fonts[i].font IN
               /\ OnceLockTake(cell).cell = FontUnset
               /\ UpdateSlotSet(cell, FontSet(info)).res = "ok")
    /\ [][(FontStep("update_cache") /\ fop'.res = "ok") =>
            \A i \in 1..Len(Registry.fonts) :
               Warm(Registry.fonts[i]) =>
                  RegistryAfter.fonts[i].font = Registry.fonts[i].font]_vars

\* C40 witness: a successful update_cache whose selected slot had been
\* filled by an earlier operation and still holds that value.
C40_Witness ==
    /\ fop.op = "update_cache"
    /\ fop.res = "ok"
    /\ fop.n >= 2
    /\ fontCache.tag = "ok"
    /\ LET i == UpdateTarget(fontCache.val, fop.font) IN
       /\ i # 0
       /\ Warm(fontCache.val.fonts[i])
       /\ fontCache.val.fonts[i].font # fop.font

====
